---------------------------- MODULE Spec2Model ----------------------------
(***************************************************************************)
(* Candidate Scoring Engine of Content-Platform (backend/services).        *)
(*                                                                         *)
(* Numbers.  Python floats are modelled by exact rationals held as scaled  *)
(* integers; every returned score is an integer number of hundredths       *)
(* (65.0 is 6500).  Dates are proleptic Gregorian ordinals, as Python's    *)
(* date.toordinal(); a "YYYY-MM-DD" string is the record [y, m, d], and    *)
(* strptime / strftime convert between the two by calendar arithmetic.     *)
(* round() is taken on the exact rational: where that is an exact tie      *)
(* (0.625) the float the code rounds may sit one hundredth away, so the    *)
(* properties that state a rounded value allow that hundredth.             *)
(***************************************************************************)
EXTENDS Integers, Sequences, FiniteSets, TLC

VARIABLES
    \* fetch_user_profile_metrics: the fetched activity and what is derived
    contributions,      \* GraphQL calendar days, [date, count] with count > 0
    commits,            \* Events-API commit events, [date]
    prs,                \* merged PRs, [merged_at]
    heatmap_data,       \* None, or Some(the per-year grids in dict order)
    consistency_score,  \* None, or Some(the score in hundredths)
    consistency_locals, \* None, or Some(the scorer's locals after its 52-week walk)
    \* calculate_git_score
    profile_metrics, agent_metrics, git_score_result,
    \* analyze_pr
    pr, analyzed_pr,
    \* fetch_top_contributors / select_normalized_contributors
    population,         \* the contributors the API returned, in API order
    ranked,             \* None, or Some(the list fetch_top_contributors returns)
    selected,           \* None, or Some(the picks, each [position, contributor])
    sampler_pc,         \* "idle", "fetch", "select", "done" or "raised"
    \* gql / github_request: one call
    fetcher,            \* "none", "gql" or "github_request"
    attempt,            \* gql's retry counter
    requests_sent,      \* requests issued by the call so far
    resp,               \* None, or Some(the last response received)
    waits,              \* the seconds backoff_sleep slept, in order
    fetch_error,        \* None, or Some(what the call raised)
    fetch_pc,           \* "idle", "send", "returned" or "raised"
    \* process_candidates / process_candidates_from_csv: one batch
    batch_mode,         \* "none", "json" or "csv"
    candidates,         \* the candidates of the input file, in order
    mongodb_available,  \* whether get_mongodb_collection() gives a collection
    idx,                \* how many candidates the loop has gone through
    processed, failed, skipped_bots,
    results,            \* the result dicts appended so far
    experts,            \* the documents upsert_expert has written, in order
    batch_pc,           \* "idle", "loop" or "returned"
    \* fetch_all_pages / fetch_all_comments / fetch_all_reviews: one drain
    drain,              \* "none" or the name of the function that runs
    page,               \* fetch_all_pages: the page number of the next request
    after,              \* cursor drains: the cursor of the next request
    collected,          \* len(all_data), len(comments) or len(reviews)
    page_requests,      \* requests sent by the drain so far
    sleeps,             \* time.sleep(SLEEP_SECS) calls made by the drain so far
    drain_pc,           \* "idle", "loop", "returned" or "raised"
    \* fetch_contributor_prs, top-3 selection, merged PR count, time taken
    sel_flow,           \* "none" or the name of the function that selects
    pulls,              \* the PRs GitHub answers with, in fetch order
    top_prs,            \* top_prs / top_3_prs once selected
    merged_prs_total,   \* total_prs_merged of fetch_user_merged_prs_last_year
    time_taken_days     \* the (PR, days) pairs that enter avg_time_taken

heatVars == <<contributions, commits, prs, heatmap_data, consistency_score,
              consistency_locals>>
scoreVars == <<profile_metrics, agent_metrics, git_score_result>>
prVars == <<pr, analyzed_pr>>
samplerVars == <<population, ranked, selected, sampler_pc>>
fetchVars == <<fetcher, attempt, requests_sent, resp, waits, fetch_error, fetch_pc>>
batchVars == <<batch_mode, candidates, mongodb_available, idx, processed, failed,
               skipped_bots, results, experts, batch_pc>>
pageVars == <<drain, page, after, collected, page_requests, sleeps, drain_pc>>
selVars == <<sel_flow, pulls, top_prs, merged_prs_total, time_taken_days>>
vars == <<heatVars, scoreVars, prVars, samplerVars, fetchVars, batchVars, pageVars, selVars>>

\* Python's Optional: None is the empty tuple, a present value x is <<x>>.
None == <<>>
Some(x) == <<x>>
Val(o) == o[1]

\* The empty date string ''
EmptyDate == [y |-> 0, m |-> 0, d |-> 0]

Min(a, b) == IF a <= b THEN a ELSE b
Max(a, b) == IF a >= b THEN a ELSE b

Range(s) == {s[i] : i \in DOMAIN s}

\* max(...) of a non-empty finite set of integers
MaxOf(S) == CHOOSE x \in S : \A y \in S : y <= x

\* Python round(num/den, 2) for den > 0, in hundredths: nearest, ties to even.
Round2(num, den) ==
    LET n == num * 100
        q == n \div den
        r == n % den
    IN  IF 2 * r < den THEN q
        ELSE IF 2 * r > den THEN q + 1
        ELSE IF q % 2 = 0 THEN q ELSE q + 1

(***************************************************************************)
(* datetime: the calendar arithmetic behind strptime, strftime, weekday()  *)
(* and isocalendar().                                                      *)
(***************************************************************************)
IsLeap(y) == (y % 4 = 0) /\ ((y % 100 # 0) \/ (y % 400 = 0))

DaysInMonth(y, m) ==
    IF m = 2 THEN (IF IsLeap(y) THEN 29 ELSE 28)
    ELSE IF m \in {4, 6, 9, 11} THEN 30 ELSE 31

DaysBeforeYear(y) ==
    (y - 1) * 365 + ((y - 1) \div 4) - ((y - 1) \div 100) + ((y - 1) \div 400)

\* Days of the year before the first of month m.
DaysBeforeMonth(y, m) ==
    <<0, 31, 59, 90, 120, 151, 181, 212, 243, 273, 304, 334>>[m]
    + (IF m > 2 /\ IsLeap(y) THEN 1 ELSE 0)

ymd2ord(y, m, d) == DaysBeforeYear(y) + DaysBeforeMonth(y, m) + d

\* datetime.strptime(date_str, '%Y-%m-%d')
strptime(s) == ymd2ord(s.y, s.m, s.d)

YearOfOrd(o) ==
    CHOOSE y \in 2020..2030 : DaysBeforeYear(y) < o /\ o <= DaysBeforeYear(y + 1)

\* dt.strftime('%Y-%m-%d')
strftime(o) ==
    LET y == YearOfOrd(o)
        n == o - DaysBeforeYear(y)
        m == CHOOSE k \in 1..12 :
                 DaysBeforeMonth(y, k) < n
                 /\ n <= DaysBeforeMonth(y, k) + DaysInMonth(y, k)
    IN  [y |-> y, m |-> m, d |-> n - DaysBeforeMonth(y, m)]

\* dt.weekday(): Monday = 0 .. Sunday = 6
weekday(o) == (o + 6) % 7

isoweek1monday(year) ==
    LET firstday == ymd2ord(year, 1, 1)
        firstweekday == weekday(firstday)
        week1monday == firstday - firstweekday
    IN  IF firstweekday > 3 THEN week1monday + 7 ELSE week1monday

\* The days the modelled calendars and activity can fall on.
CalendarDays == ymd2ord(2023, 1, 1)..ymd2ord(2027, 12, 31)

\* dt.isocalendar()[:2] of each day: <<ISO year, ISO week>>
isocalendar ==
    [o \in CalendarDays |->
        LET year == YearOfOrd(o)
            week == (o - isoweek1monday(year)) \div 7
        IN  IF o < isoweek1monday(year)
            THEN <<year - 1, ((o - isoweek1monday(year - 1)) \div 7) + 1>>
            ELSE IF week >= 52 /\ o >= isoweek1monday(year + 1)
            THEN <<year + 1, 1>>
            ELSE <<year, week + 1>>]

\* f"{year}-W{week:02d}" of dt.isocalendar(): the pair <<year, week>>
week_key(o) == isocalendar[o]

(***************************************************************************)
(* HeatmapBuilder: generate_heatmap_from_contributions and                 *)
(* generate_contribution_heatmap.                                          *)
(***************************************************************************)
heatmap_years == <<2024, 2025, 2026>>

\* heatmap_grid is keyed by (week, day); the key is held as week * 7 + day.
GridKey(week, day) == week * 7 + day
GridKeys == 0..(52 * 7 - 1)

start_of_first_week(year) ==
    LET year_start == ymd2ord(year, 1, 1)
    IN  year_start - weekday(year_start)

\* EventKey with the week left unclamped: a day past week 51 is skipped.
EventKeyUnclamped(year, o) ==
    IF ymd2ord(year, 1, 1) <= o /\ o <= ymd2ord(year, 12, 31)
    THEN LET days_since_start == o - start_of_first_week(year)
             week == days_since_start \div 7
             day == weekday(o)
         IN  IF 0 <= week /\ week < 52 /\ 0 <= day /\ day < 7
             THEN GridKey(week, day)
             ELSE -1
    ELSE -1

\* The grid key an event dated `o` is counted under in the year's grid, or -1
\* when the loop skips it (another year, or outside the 52 x 7 grid).
EventKey(year, o) ==
    IF ymd2ord(year, 1, 1) <= o /\ o <= ymd2ord(year, 12, 31)
    THEN LET days_since_start == o - start_of_first_week(year)
             week == Min(51, days_since_start \div 7)
             day == weekday(o)
         IN  IF 0 <= week /\ week < 52 /\ 0 <= day /\ day < 7
             THEN GridKey(week, day)
             ELSE -1
    ELSE -1

PRWeight == 2

\* The events of each source in loop order, with the weight each adds.
ContributionEvents(contribs) ==
    [i \in DOMAIN contribs |->
        [o |-> strptime(contribs[i].date), weight |-> contribs[i].count]]

CommitEvents(cs) ==
    [i \in DOMAIN cs |-> [o |-> strptime(cs[i].date), weight |-> 1]]

PREvents(ps) ==
    LET Merged(p) == p.merged_at # None
        merged == SelectSeq(ps, Merged)
    IN  [i \in DOMAIN merged |->
            [o |-> strptime(Val(merged[i].merged_at)), weight |-> PRWeight]]

RECURSIVE SumWeights(_, _)
SumWeights(events, i) ==
    IF i > Len(events) THEN 0
    ELSE events[i].weight + SumWeights(events, i + 1)

\* The events with the grid key each is counted under.
KeyedEvents(year, events) ==
    [i \in DOMAIN events |->
        [key |-> EventKey(year, events[i].o),
         o |-> events[i].o, weight |-> events[i].weight]]

\* The cell the events counted under one key leave: their summed weight and
\* the date of the first of them.
GridCell(hits) ==
    IF hits = <<>>
    THEN [count |-> 0, date |-> None]
    ELSE [count |-> SumWeights(hits, 1), date |-> Some(strftime(hits[1].o))]

\* heatmap_grid after the accumulation loops of one year.
GridOf(keyed) ==
    [k \in GridKeys |->
        LET Hit(e) == e.key = k
        IN  GridCell(SelectSeq(keyed, Hit))]

Accumulate(year, events) == GridOf(KeyedEvents(year, events))

\* max(cell['count'] for cell in heatmap_grid.values())
MaxCount(grid) == MaxOf({grid[k].count : k \in GridKeys})

\* NormalizedValue scaled to five steps and left unclamped.
NormalizedValueFiveSteps(raw_count, max_count) ==
    IF max_count > 0 THEN (raw_count * 5) \div max_count ELSE 0

\* min(4, int((raw_count / max_count) * 4)), 0 when max_count is 0
NormalizedValue(raw_count, max_count) ==
    IF max_count > 0 THEN Min(4, (raw_count * 4) \div max_count) ELSE 0

\* One cell of the output: its normalized value, raw count and date.
HeatmapCell(cell_data, week, day, year, max_count) ==
    [week |-> week,
     day |-> day,
     value |-> NormalizedValue(cell_data.count, max_count),
     count |-> cell_data.count,
     date |-> IF cell_data.date # None THEN Val(cell_data.date)
              ELSE strftime(start_of_first_week(year) + week * 7 + day)]

\* The 52 x 7 output loop: one cell per (week, day), week-major.
NormalizedCells(grid, year, max_count) ==
    [i \in 1..(52 * 7) |->
        HeatmapCell(grid[GridKey((i - 1) \div 7, (i - 1) % 7)],
                    (i - 1) \div 7, (i - 1) % 7, year, max_count)]

HeatmapCells(grid, year) == NormalizedCells(grid, year, MaxCount(grid))

generate_heatmap_from_contributions(contribs, ps) ==
    [n \in 1..Len(heatmap_years) |->
        LET year == heatmap_years[n]
        IN  [year |-> year,
             data |-> HeatmapCells(
                 Accumulate(year, ContributionEvents(contribs) \o PREvents(ps)),
                 year)]]

generate_contribution_heatmap(cs, ps) ==
    [n \in 1..Len(heatmap_years) |->
        LET year == heatmap_years[n]
        IN  [year |-> year,
             data |-> HeatmapCells(
                 Accumulate(year, CommitEvents(cs) \o PREvents(ps)),
                 year)]]

(***************************************************************************)
(* ConsistencyScorer: calculate_consistency_score.                         *)
(***************************************************************************)
\* The {date, count} entry a heatmap cell is flattened to.
ContributionsOf(cells) ==
    [i \in DOMAIN cells |-> [date |-> cells[i].date, count |-> cells[i].count]]

\* if count > 0 and date_str
NonZeroCell(cell) == cell.count > 0 /\ cell.date # EmptyDate

RECURSIVE FlattenYears(_, _)
\* Every cell with count > 0 and a date, over all years in dict order.
FlattenYears(hm, n) ==
    IF n > Len(hm) THEN <<>>
    ELSE ContributionsOf(SelectSeq(hm[n].data, NonZeroCell)) \o FlattenYears(hm, n + 1)

RECURSIVE SumCounts(_, _)
\* Sum of the counts of contribs[i..].
SumCounts(contribs, i) ==
    IF i > Len(contribs) THEN 0
    ELSE contribs[i].count + SumCounts(contribs, i + 1)

\* weekly_commits[week_key] += count, over all years
weekly_commits(contribs) ==
    LET keys == {week_key(strptime(c.date)) : c \in Range(contribs)}
    IN  [k \in keys |->
            LET InWeek(c) == week_key(strptime(c.date)) = k
            IN  SumCounts(SelectSeq(contribs, InWeek), 1)]

\* year_contribution_counts[contrib_date.year] += count
year_contribution_counts(contribs) ==
    LET years == {c.date.y : c \in Range(contribs)}
    IN  [y \in years |->
            LET InYear(c) == c.date.y = y
            IN  SumCounts(SelectSeq(contribs, InYear), 1)]

\* The first year, in the order the dict's keys were inserted (the order of
\* first appearance in contribs), whose total is `best`.
FirstYearWithTotal(contribs, counts, best) ==
    contribs[CHOOSE i \in 1..Len(contribs) :
                 /\ counts[contribs[i].date.y] = best
                 /\ \A j \in 1..(i - 1) : counts[contribs[j].date.y] # best].date.y

MaxYearTotal(counts) == MaxOf({counts[y] : y \in DOMAIN counts})

\* max(year_contribution_counts.items(), key=lambda x: x[1])[0]
MostActiveYear(contribs, counts) ==
    FirstYearWithTotal(contribs, counts, MaxYearTotal(counts))

analysis_year_of(contribs) ==
    MostActiveYear(contribs, year_contribution_counts(contribs))

\* The entries of weekly_commits whose key carries the analysis year.
WeeksOfYear(wc, analysis_year) ==
    [k \in {kk \in DOMAIN wc : kk[1] = analysis_year} |-> wc[k]]

year_weekly_commits(contribs, analysis_year) ==
    WeeksOfYear(weekly_commits(contribs), analysis_year)

total_weeks == 52

\* WeeklyScore with its two lower tiers exchanged.
WeeklyScoreTiersExchanged(n) == IF n <= 3 THEN 8 ELSE IF n <= 10 THEN 5 ELSE 10

\* Score of one active week, in tenths.
WeeklyScore(n) == IF n <= 3 THEN 5 ELSE IF n <= 10 THEN 8 ELSE 10

\* year_weekly_commits.get(week_key, 0)
CommitsOfWeek(ywc, key) == IF key \in DOMAIN ywc THEN ywc[key] ELSE 0

\* The commits of each of the 52 weeks walked from year_start_date.
WalkedWeeks(ywc, year_start_date) ==
    [week_num \in 0..(total_weeks - 1) |->
        CommitsOfWeek(ywc, week_key(year_start_date + 7 * week_num))]

RECURSIVE SumWeeklyScores(_, _)
\* sum(weekly_scores), in tenths: one score per active week.
SumWeeklyScores(walked, week_num) ==
    IF week_num >= total_weeks THEN 0
    ELSE (IF walked[week_num] > 0 THEN WeeklyScore(walked[week_num]) ELSE 0)
         + SumWeeklyScores(walked, week_num + 1)

\* The weeks of the walk that count as active.
ActiveWeeks(walked) == {w \in DOMAIN walked : walked[w] > 0}

\* current_gap once week w is walked: the weeks since the last active one.
current_gap_after(active, w) == w - MaxOf({a \in active : a <= w} \cup {-1})

\* longest_gap once all weeks are walked: the highest current_gap seen.
longest_gap_of(active) ==
    MaxOf({current_gap_after(active, w) : w \in 0..(total_weeks - 1)})

\* What the 52-week loop leaves in active_weeks, current_gap, longest_gap and
\* weekly_scores.
StatsOfWalk(walked, active) ==
    [active_weeks |-> Cardinality(active),
     current_gap |-> current_gap_after(active, total_weeks - 1),
     longest_gap |-> longest_gap_of(active),
     score_sum |-> SumWeeklyScores(walked, 0)]

WalkStats(walked) == StatsOfWalk(walked, ActiveWeeks(walked))

\* The Monday of the ISO week of Jan 4.
year_start_date_of(analysis_year) ==
    ymd2ord(analysis_year, 1, 4) - weekday(ymd2ord(analysis_year, 1, 4))

WeekStats(contribs, analysis_year) ==
    WalkStats(WalkedWeeks(year_weekly_commits(contribs, analysis_year),
                          year_start_date_of(analysis_year)))

\* gap_penalty without its tiers: 0.05 per week of gap at every activity level.
gap_penalty_untiered(active_weeks, longest_gap) ==
    IF longest_gap <= 0 THEN 0 ELSE longest_gap * 5

\* gap_penalty * 5200 (5200 * (longest_gap / 52) * 0.05 = longest_gap * 5)
gap_penalty(active_weeks, longest_gap) ==
    IF longest_gap <= 0 THEN 0
    ELSE IF active_weeks >= 30 THEN 0
    ELSE IF active_weeks >= 25 THEN
        (IF longest_gap > 30 THEN longest_gap * 5 ELSE 0)
    ELSE IF active_weeks >= 20 THEN
        (IF longest_gap > 25 THEN longest_gap * 10
         ELSE IF longest_gap > 20 THEN longest_gap * 5 ELSE 0)
    ELSE IF active_weeks >= 15 THEN
        (IF longest_gap > 25 THEN longest_gap * 15
         ELSE IF longest_gap > 15 THEN longest_gap * 8 ELSE 0)
    ELSE IF active_weeks >= 10 THEN
        (IF longest_gap > 30 THEN Min(1040, longest_gap * 20)
         ELSE IF longest_gap > 20 THEN longest_gap * 12
         ELSE IF longest_gap > 10 THEN longest_gap * 6 ELSE 0)
    ELSE
        (IF longest_gap > 30 THEN Min(1300, longest_gap * 25)
         ELSE IF longest_gap > 20 THEN Min(780, longest_gap * 15)
         ELSE IF longest_gap > 10 THEN longest_gap * 10
         ELSE longest_gap * 5)

\* consistency_index * 5200:
\* (active_weeks / 52) * 60 + (sum(weekly_scores) / 52) * 25 - gap_penalty * 5
consistency_index(st) ==
    st.active_weeks * 6000 + st.score_sum * 250
    - 5 * gap_penalty(st.active_weeks, st.longest_gap)

\* safeguard_floor with each tier one step lower.
safeguard_floor_lowered(active_weeks) ==
    IF active_weeks >= 30 THEN 55 * 5200
    ELSE IF active_weeks >= 25 THEN 45 * 5200
    ELSE IF active_weeks >= 20 THEN 35 * 5200
    ELSE IF active_weeks >= 15 THEN 25 * 5200
    ELSE IF active_weeks >= 10 THEN 15 * 5200
    ELSE IF active_weeks >= 5 THEN 10 * 5200
    ELSE 0

\* The activity floor, * 5200 (0 when no safeguard applies).
safeguard_floor(active_weeks) ==
    IF active_weeks >= 30 THEN 65 * 5200
    ELSE IF active_weeks >= 25 THEN 55 * 5200
    ELSE IF active_weeks >= 20 THEN 45 * 5200
    ELSE IF active_weeks >= 15 THEN 35 * 5200
    ELSE IF active_weeks >= 10 THEN 25 * 5200
    ELSE IF active_weeks >= 5 THEN 15 * 5200
    ELSE IF active_weeks >= 3 THEN 10 * 5200
    ELSE 0

\* The value returned once the weeks are walked, in hundredths.
ScoreFromStats(st) ==
    IF st.active_weeks = 0 THEN 1500
    ELSE LET clamped == Max(0, Min(100 * 5200, consistency_index(st)))
         IN  Round2(Max(clamped, safeguard_floor(st.active_weeks)), 5200)

\* The scorer's locals once the weeks are walked.
LocalsOf(analysis_year, st) ==
    [analysis_year |-> analysis_year,
     active_weeks |-> st.active_weeks,
     longest_gap |-> st.longest_gap,
     score_sum |-> st.score_sum]

LocalsOfYear(contribs, analysis_year) ==
    LocalsOf(analysis_year, WeekStats(contribs, analysis_year))

LocalsOfContributions(contribs) ==
    IF contribs = <<>> THEN None
    ELSE Some(LocalsOfYear(contribs, analysis_year_of(contribs)))

\* analysis_year, active_weeks, longest_gap and the weekly scores once the
\* weeks are walked; None when the function returns before the walk.
ConsistencyLocals(hm) ==
    IF hm = None \/ Val(hm) = <<>> THEN None
    ELSE LocalsOfContributions(FlattenYears(Val(hm), 1))

\* ScoreOfLocals answering the minimum score 15.0 for no data.
ScoreOfLocalsMin15(locals) ==
    IF locals = None THEN 1500 ELSE ScoreFromStats(Val(locals))

\* The value returned for the locals: 0.0 when it returns before the walk.
ScoreOfLocals(locals) ==
    IF locals = None THEN 0 ELSE ScoreFromStats(Val(locals))

calculate_consistency_score(hm) == ScoreOfLocals(ConsistencyLocals(hm))

(***************************************************************************)
(* fetch_user_profile_metrics: the activity GitHub returns for a user, the *)
(* heatmap built from it and the consistency score of the heatmap.         *)
(***************************************************************************)
MaxStride == 2
BurstSize == 35

\* years_to_fetch = [current_year, current_year - 1, current_year - 2]
years_to_fetch == <<2026, 2025, 2024>>

RECURSIVE FetchYears(_, _)
\* all_contributions: the calendar days of each fetched year, year by year.
FetchYears(days, n) ==
    IF n > Len(years_to_fetch) THEN <<>>
    ELSE LET InYear(c) == c.date.y = years_to_fetch[n]
         IN  SelectSeq(days, InYear) \o FetchYears(days, n + 1)

\* n calendar days of `count` contributions each, one every `stride` weeks.
Periodic(first, n, stride, count) ==
    FetchYears([i \in 1..n |->
        [date |-> strftime(first + 7 * stride * (i - 1)), count |-> count]], 1)

\* BurstSize merged PRs, spread over `days` consecutive days from `first`.
Burst(first, days) ==
    [i \in 1..BurstSize |-> [merged_at |-> Some(strftime(first + (i % days)))]]

WeekCounts == {0, 1, 2, 3, 5, 10, 15, 20, 25, 30, 52}

BurstDays ==
    {ymd2ord(2024, 1, 1), ymd2ord(2024, 12, 23), ymd2ord(2024, 12, 30),
     ymd2ord(2024, 12, 31), ymd2ord(2025, 1, 1), ymd2ord(2025, 6, 16),
     ymd2ord(2025, 12, 22),
     ymd2ord(2025, 12, 29), ymd2ord(2026, 1, 1), ymd2ord(2026, 12, 21),
     ymd2ord(2026, 12, 28)}

\* A steady contributor: weekly (or sparser) calendar days from Jan 1.
SteadyProfiles ==
    {[contributions |-> Periodic(ymd2ord(y, 1, 1), n, stride, IF stride = 1 THEN 3 ELSE 11),
      commits |-> <<>>, prs |-> <<>>] :
        y \in Range(heatmap_years), n \in WeekCounts, stride \in 1..MaxStride}

\* A contributor whose only activity is one burst of merged PRs.
BurstProfiles ==
    {[contributions |-> <<>>, commits |-> <<>>, prs |-> Burst(d, days)] :
        d \in BurstDays, days \in {1, 3}}

\* Two years of activity: steady weeks in 2024 and one busy day in 2025;
\* and activity only in the last days of a year.
MixedProfiles ==
    {[contributions |->
          <<[date |-> [y |-> 2025, m |-> 6, d |-> 18], count |-> n]>>
          \o Periodic(ymd2ord(2024, 1, 1), n, 1, 1),
      commits |-> <<>>, prs |-> <<>>] : n \in {3, 30}}
    \cup
    {[contributions |-> <<[date |-> strftime(d), count |-> c]>>,
      commits |-> <<>>, prs |-> <<>>] :
        d \in {ymd2ord(2024, 12, 30), ymd2ord(2025, 12, 29), ymd2ord(2026, 12, 30)},
        c \in {1, 5}}

\* The calendar API returned nothing: the Events-API commits are the source.
FallbackProfiles ==
    {[contributions |-> <<>>,
      commits |-> [i \in 1..n |-> [date |-> strftime(ymd2ord(2026, 1, 5) + 3 * i)]],
      prs |-> ps] :
        n \in {1, 4, 40},
        ps \in {<<>>, <<[merged_at |-> Some([y |-> 2026, m |-> 1, d |-> 8])],
                       [merged_at |-> Some([y |-> 2025, m |-> 12, d |-> 31])]>>}}

\* A contributor who starts in the middle of 2025: weekly calendar days from
\* Monday June 30 on.
LateStartProfiles ==
    {[contributions |-> Periodic(ymd2ord(2025, 6, 30), n, 1, 4),
      commits |-> <<>>, prs |-> <<>>] : n \in {14, 15}}

Profiles ==
    SteadyProfiles \cup BurstProfiles \cup MixedProfiles \cup FallbackProfiles
        \cup LateStartProfiles

\* The other components stay idle while this one runs.
InitProfile ==
    /\ \E p \in Profiles :
        /\ contributions = p.contributions
        /\ commits = p.commits
        /\ prs = p.prs
    /\ heatmap_data \in {None, Some(<<>>)}
    /\ consistency_score = None
    /\ consistency_locals = None
    /\ profile_metrics = <<>> /\ agent_metrics = <<>> /\ git_score_result = None
    /\ pr = <<>> /\ analyzed_pr = None
    /\ population = <<>> /\ ranked = None /\ selected = None /\ sampler_pc = "idle"
    /\ fetcher = "none" /\ attempt = 0 /\ requests_sent = 0 /\ resp = None
    /\ waits = <<>> /\ fetch_error = None /\ fetch_pc = "idle"
    /\ batch_mode = "none" /\ candidates = <<>> /\ mongodb_available = FALSE /\ idx = 0
    /\ processed = 0 /\ failed = 0 /\ skipped_bots = 0
    /\ results = <<>> /\ experts = <<>> /\ batch_pc = "idle"
    /\ drain = "none" /\ page = 1 /\ after = None /\ collected = 0
    /\ page_requests = 0 /\ sleeps = 0 /\ drain_pc = "idle"
    /\ sel_flow = "none" /\ pulls = <<>> /\ top_prs = None
    /\ merged_prs_total = None /\ time_taken_days = None

\* fetch_user_profile_metrics, the GraphQL calendar returned contributions
BuildFromContributions ==
    /\ consistency_score = None
    /\ heatmap_data \in {None, Some(<<>>)}
    /\ contributions # <<>>
    /\ heatmap_data' = Some(generate_heatmap_from_contributions(contributions, prs))
    /\ UNCHANGED <<contributions, commits, prs, consistency_score, consistency_locals>>
    /\ UNCHANGED <<scoreVars, prVars, samplerVars, fetchVars, batchVars, pageVars, selVars>>

\* fetch_user_profile_metrics, the fallback to the Events-API commits
BuildFromCommits ==
    /\ consistency_score = None
    /\ heatmap_data \in {None, Some(<<>>)}
    /\ contributions = <<>>
    /\ heatmap_data' = Some(generate_contribution_heatmap(commits, prs))
    /\ UNCHANGED <<contributions, commits, prs, consistency_score, consistency_locals>>
    /\ UNCHANGED <<scoreVars, prVars, samplerVars, fetchVars, batchVars, pageVars, selVars>>

\* calculate_consistency_score(username, prs, heatmap_data=...)
CalculateConsistency ==
    /\ consistency_score = None
    /\ consistency_locals' = ConsistencyLocals(heatmap_data)
    /\ consistency_score' = Some(calculate_consistency_score(heatmap_data))
    /\ UNCHANGED <<contributions, commits, prs, heatmap_data>>
    /\ UNCHANGED <<scoreVars, prVars, samplerVars, fetchVars, batchVars, pageVars, selVars>>

NextProfile ==
    \/ BuildFromContributions
    \/ BuildFromCommits
    \/ CalculateConsistency

SpecProfile == InitProfile /\ [][NextProfile]_vars

(***************************************************************************)
(* GitScoreAggregator: git_score_calculator.py.  Counts are integers,      *)
(* avg_prs_per_week, consistency_score and every score are in hundredths,  *)
(* and an agent metric (0-5.0) is in ten-thousandths.                      *)
(***************************************************************************)
\* The tier of the number of merged PRs, 0..100.
pr_count_score(total_prs_merged) ==
    IF total_prs_merged >= 50 THEN 100
    ELSE IF total_prs_merged >= 30 THEN 80
    ELSE IF total_prs_merged >= 20 THEN 70
    ELSE IF total_prs_merged >= 10 THEN 60
    ELSE IF total_prs_merged >= 5 THEN 50
    ELSE IF total_prs_merged >= 2 THEN 40
    ELSE IF total_prs_merged >= 1 THEN 30
    ELSE 0

\* The tier of the weekly average (in hundredths), 0..100.
frequency_score(avg_prs_per_week) ==
    IF avg_prs_per_week >= 200 THEN 100
    ELSE IF avg_prs_per_week >= 100 THEN 80
    ELSE IF avg_prs_per_week >= 50 THEN 60
    ELSE IF avg_prs_per_week >= 25 THEN 40
    ELSE IF avg_prs_per_week > 0 THEN 20
    ELSE 0

\* score_pr_activity with the two weights exchanged.
score_pr_activity_weights_exchanged(total_prs_merged, avg_prs_per_week) ==
    Round2(pr_count_score(total_prs_merged) * 4
           + frequency_score(avg_prs_per_week) * 6, 10)

score_pr_activity(total_prs_merged, avg_prs_per_week) ==
    Round2(pr_count_score(total_prs_merged) * 6
           + frequency_score(avg_prs_per_week) * 4, 10)

score_consistency(score) == Round2(Max(0, Min(10000, score)), 100)

\* score_comment_quality with the clamp to [0, 100] left out.
score_comment_quality_unclamped(comment_quality_score) ==
    IF comment_quality_score = None THEN 5000
    ELSE Round2(Val(comment_quality_score) * 20, 10000)

score_comment_quality(comment_quality_score) ==
    IF comment_quality_score = None THEN 5000
    ELSE Round2(Max(0, Min(100 * 10000, Val(comment_quality_score) * 20)), 10000)

score_pr_quality(pr_quality_score) ==
    IF pr_quality_score = None THEN 5000
    ELSE Round2(Max(0, Min(100 * 10000, Val(pr_quality_score) * 20)), 10000)

\* score_time_taken answering 0.0 for a missing metric.
score_time_taken_default_zero(time_taken_score) ==
    IF time_taken_score = None THEN 0
    ELSE Round2(Max(0, Min(100 * 10000, Val(time_taken_score) * 20)), 10000)

score_time_taken(time_taken_score) ==
    IF time_taken_score = None THEN 5000
    ELSE Round2(Max(0, Min(100 * 10000, Val(time_taken_score) * 20)), 10000)

score_num_repos(num_repos) ==
    IF num_repos >= 20 THEN 10000
    ELSE IF num_repos >= 15 THEN 9000
    ELSE IF num_repos >= 10 THEN 8000
    ELSE IF num_repos >= 7 THEN 7000
    ELSE IF num_repos >= 5 THEN 6000
    ELSE IF num_repos >= 3 THEN 5000
    ELSE IF num_repos >= 2 THEN 4000
    ELSE IF num_repos >= 1 THEN 3000
    ELSE 0

\* dict.get(key, default); a dict is a function over the keys it holds.
Get(dict, key, default) == IF key \in DOMAIN dict THEN dict[key] ELSE default

\* The six sub-scores and their mean, from the values the dicts gave.
GitScoreOf(total_prs_merged, avg_prs_per_week, consistency, num_repos, comment_quality, pr_quality, time_taken) ==
    LET pr_activity_score == score_pr_activity(total_prs_merged, avg_prs_per_week)
        consistency_score_ == score_consistency(consistency)
        comment_quality_score == score_comment_quality(comment_quality)
        pr_quality_score == score_pr_quality(pr_quality)
        time_taken_score == score_time_taken(time_taken)
        num_repos_score == score_num_repos(num_repos)
        total == pr_activity_score + consistency_score_ + comment_quality_score
                 + pr_quality_score + time_taken_score + num_repos_score
    IN  [git_score |-> Round2(Max(0, Min(10000 * 6, total)), 600),
         breakdown |-> [pr_activity |-> pr_activity_score,
                        consistency |-> consistency_score_,
                        comment_quality |-> comment_quality_score,
                        pr_quality |-> pr_quality_score,
                        time_taken |-> time_taken_score,
                        num_repos |-> num_repos_score]]

\* The outcome of a call that raised instead of returning.
Raised(exception) == [raised |-> exception]

\* A profile value that is None reaches a comparison with a number
\* (None >= 50, min(100.0, None)), which raises TypeError.
calculate_git_score(pm, am) ==
    IF \E k \in DOMAIN pm : pm[k] = None
    THEN Raised("TypeError")
    ELSE GitScoreOf(Val(Get(pm, "total_prs_merged", Some(0))),
                    Val(Get(pm, "avg_prs_per_week", Some(0))),
                    Val(Get(pm, "consistency_score", Some(0))),
                    Val(Get(pm, "num_repos", Some(0))),
                    Get(am, "comment_quality", None),
                    Get(am, "pr_quality", None),
                    Get(am, "time_taken", None))

\* The largest magnitude tried for a metric.
Huge == 10000000

ProfileKeys == {"total_prs_merged", "avg_prs_per_week", "consistency_score", "num_repos"}
AgentKeys == {"comment_quality", "pr_quality", "time_taken"}

\* A metric the caller supplies: None, negative, small, in range, or far too
\* large; 2.4999 is an agent metric off the grid of hundredths.
ProfileValues == {None, Some(-100), Some(3), Some(6543), Some(Huge)}
AgentValues == {None, Some(-10000), Some(24999), Some(Huge)}

ProfileDicts == UNION {[D -> ProfileValues] : D \in SUBSET ProfileKeys}
AgentDicts == UNION {[D -> AgentValues] : D \in SUBSET AgentKeys}

InitScore ==
    /\ profile_metrics \in ProfileDicts
    /\ agent_metrics \in AgentDicts
    /\ git_score_result = None
    /\ contributions = <<>> /\ commits = <<>> /\ prs = <<>>
    /\ heatmap_data = None /\ consistency_score = None /\ consistency_locals = None
    /\ pr = <<>> /\ analyzed_pr = None
    /\ population = <<>> /\ ranked = None /\ selected = None /\ sampler_pc = "idle"
    /\ fetcher = "none" /\ attempt = 0 /\ requests_sent = 0 /\ resp = None
    /\ waits = <<>> /\ fetch_error = None /\ fetch_pc = "idle"
    /\ batch_mode = "none" /\ candidates = <<>> /\ mongodb_available = FALSE /\ idx = 0
    /\ processed = 0 /\ failed = 0 /\ skipped_bots = 0
    /\ results = <<>> /\ experts = <<>> /\ batch_pc = "idle"
    /\ drain = "none" /\ page = 1 /\ after = None /\ collected = 0
    /\ page_requests = 0 /\ sleeps = 0 /\ drain_pc = "idle"
    /\ sel_flow = "none" /\ pulls = <<>> /\ top_prs = None
    /\ merged_prs_total = None /\ time_taken_days = None

CalculateGitScore ==
    /\ git_score_result = None
    /\ git_score_result' = Some(calculate_git_score(profile_metrics, agent_metrics))
    /\ UNCHANGED <<profile_metrics, agent_metrics>>
    /\ UNCHANGED <<heatVars, prVars, samplerVars, fetchVars, batchVars, pageVars, selVars>>

NextScore == CalculateGitScore

SpecScore == InitScore /\ [][NextScore]_vars

(***************************************************************************)
(* PRScorer: calculate_label_score and analyze_pr (github_service.py).     *)
(* A string is the sequence of its characters.  The PR score is held in    *)
(* units of 1/250 point, in which the three volume terms are integers.     *)
(***************************************************************************)
PRIORITY_LABELS ==
    <<<<"f", "e", "a", "t", "u", "r", "e">>,
      <<"h", "i", "g", "h", " ", "p", "r", "i", "o", "r", "i", "t", "y">>,
      <<"b", "o", "u", "n", "t", "y">>,
      <<"$">>,
      <<"m", "o", "n", "e", "y">>,
      <<"r", "e", "w", "a", "r", "d">>,
      <<"p", "o", "i", "n", "t", "s">>>>

UpperCase == <<"A", "B", "C", "D", "E", "F", "G", "H", "I", "J", "K", "L", "M", "N", "O", "P", "Q", "R", "S", "T", "U", "V", "W", "X", "Y", "Z">>
LowerCase == <<"a", "b", "c", "d", "e", "f", "g", "h", "i", "j", "k", "l", "m", "n", "o", "p", "q", "r", "s", "t", "u", "v", "w", "x", "y", "z">>

\* str.lower()
lower(str) ==
    [i \in DOMAIN str |->
        IF \E k \in DOMAIN UpperCase : UpperCase[k] = str[i]
        THEN LowerCase[CHOOSE k \in DOMAIN UpperCase : UpperCase[k] = str[i]]
        ELSE str[i]]

\* `sub in str`
Contains(str, sub) ==
    \E i \in 0..(Len(str) - Len(sub)) : SubSeq(str, i + 1, i + Len(sub)) = sub

\* calculate_label_score adding 10 for each label that matches, not for
\* each priority label that is matched.
calculate_label_score_per_label(labels) ==
    LET label_names == [i \in DOMAIN labels |-> lower(Get(labels[i], "name", <<>>))]
        matching == {i \in DOMAIN label_names :
                        \E k \in DOMAIN PRIORITY_LABELS :
                            Contains(label_names[i], lower(PRIORITY_LABELS[k]))}
    IN  10 * Cardinality(matching)

calculate_label_score(labels) ==
    LET label_names == [i \in DOMAIN labels |-> lower(Get(labels[i], "name", <<>>))]
        matched == {k \in DOMAIN PRIORITY_LABELS :
                       \E i \in DOMAIN label_names :
                           Contains(label_names[i], lower(PRIORITY_LABELS[k]))}
    IN  10 * Cardinality(matched)

\* analyze_pr with normalized_files left uncapped.
analyze_pr_files_uncapped(p, files_changed, lines_of_code, commits_count) ==
    LET label_score == calculate_label_score(Get(p, "labels", <<>>))
        normalized_files == files_changed * 100
        normalized_loc == Min(lines_of_code, 20 * 250)
        normalized_commits == Min(commits_count * 250, 20 * 250)
    IN  [score |-> label_score * 250 + normalized_files + normalized_loc
                   + normalized_commits,
         files_changed |-> files_changed,
         lines_of_code |-> lines_of_code,
         commits_count |-> commits_count,
         label_score |-> label_score]

\* The fields analyze_pr adds to the PR, for the counts its fetches returned.
analyze_pr(p, files_changed, lines_of_code, commits_count) ==
    LET label_score == calculate_label_score(Get(p, "labels", <<>>))
        normalized_files == Min(files_changed * 100, 20 * 250)
        normalized_loc == Min(lines_of_code, 20 * 250)
        normalized_commits == Min(commits_count * 250, 20 * 250)
    IN  [score |-> label_score * 250 + normalized_files + normalized_loc
                   + normalized_commits,
         files_changed |-> files_changed,
         lines_of_code |-> lines_of_code,
         commits_count |-> commits_count,
         label_score |-> label_score]

\* The label names a PR is drawn from, and a label that carries no name.
LabelPool ==
    <<<<"f", "e", "a", "t", "u", "r", "e">>,
      <<"H", "i", "g", "h", " ", "P", "r", "i", "o", "r", "i", "t", "y">>,
      <<"b", "o", "u", "n", "t", "y">>,
      <<"$", "5", "0", "0">>,
      <<"m", "o", "n", "e", "y">>,
      <<"r", "e", "w", "a", "r", "d">>,
      <<"p", "o", "i", "n", "t", "s">>,
      <<"b", "u", "g">>>>

RECURSIVE LabelsOf(_, _)
\* The labels of the pool picked by `chosen`, in pool order.
LabelsOf(chosen, k) ==
    IF k > Len(LabelPool) THEN <<>>
    ELSE (IF k \in chosen THEN <<[name |-> LabelPool[k]]>> ELSE <<>>)
         \o LabelsOf(chosen, k + 1)

PullRequests ==
    {[number |-> 1, labels |-> LabelsOf(chosen, 1)] : chosen \in SUBSET DOMAIN LabelPool}
    \cup {[number |-> 2],
          [number |-> 3, labels |-> <<[color |-> <<"r", "e", "d">>]>>]}

\* What fetch_pr_files and fetch_pr_commits can return (0 when a fetch fails).
FilesChanged == {0, 1, 50, 500}
LinesOfCode == {0, 1234, 5000, 100000}
CommitsCount == {0, 7, 20, 500}

InitPR ==
    /\ pr \in PullRequests
    /\ analyzed_pr = None
    /\ contributions = <<>> /\ commits = <<>> /\ prs = <<>>
    /\ heatmap_data = None /\ consistency_score = None /\ consistency_locals = None
    /\ profile_metrics = <<>> /\ agent_metrics = <<>> /\ git_score_result = None
    /\ population = <<>> /\ ranked = None /\ selected = None /\ sampler_pc = "idle"
    /\ fetcher = "none" /\ attempt = 0 /\ requests_sent = 0 /\ resp = None
    /\ waits = <<>> /\ fetch_error = None /\ fetch_pc = "idle"
    /\ batch_mode = "none" /\ candidates = <<>> /\ mongodb_available = FALSE /\ idx = 0
    /\ processed = 0 /\ failed = 0 /\ skipped_bots = 0
    /\ results = <<>> /\ experts = <<>> /\ batch_pc = "idle"
    /\ drain = "none" /\ page = 1 /\ after = None /\ collected = 0
    /\ page_requests = 0 /\ sleeps = 0 /\ drain_pc = "idle"
    /\ sel_flow = "none" /\ pulls = <<>> /\ top_prs = None
    /\ merged_prs_total = None /\ time_taken_days = None

AnalyzePR ==
    /\ analyzed_pr = None
    /\ \E files_changed \in FilesChanged, lines_of_code \in LinesOfCode,
          commits_count \in CommitsCount :
        analyzed_pr' = Some(analyze_pr(pr, files_changed, lines_of_code, commits_count))
    /\ UNCHANGED pr
    /\ UNCHANGED <<heatVars, scoreVars, samplerVars, fetchVars, batchVars, pageVars, selVars>>

NextPR == AnalyzePR

SpecPR == InitPR /\ [][NextPR]_vars

(***************************************************************************)
(* ContributorSampler: fetch_top_contributors and                          *)
(* select_normalized_contributors (github_service.py).  List positions are *)
(* 0-based, as in the code; a Python list l is the sequence with           *)
(* l[p] at index p + 1.                                                    *)
(***************************************************************************)
\* contributors.sort(key=contributions, reverse=True): stable, descending.
SortByContributions(contributors) ==
    LET n == Len(contributors)
        place == [i \in 1..n |->
                     Cardinality({j \in 1..n :
                         \/ contributors[j].contributions > contributors[i].contributions
                         \/ /\ contributors[j].contributions = contributors[i].contributions
                            /\ j < i}) + 1]
        at == [k \in 1..n |-> CHOOSE i \in 1..n : place[i] = k]
    IN  [k \in 1..n |-> contributors[at[k]]]

\* fetch_top_contributors: sort, then contributors[:100]
fetch_top_contributors(contributors) ==
    LET sorted == SortByContributions(contributors)
    IN  SubSeq(sorted, 1, Min(100, Len(sorted)))

\* The rank ranges [lo, hi) the sampler draws from, in the order it does.
RankRanges == <<<<30, 40>>, <<40, 50>>, <<50, 60>>, <<60, 70>>, <<70, 100>>>>

\* RangePositions with every slice left open-ended: contributors[lo:].
RangePositionsOpenEnded(n, lo, hi) ==
    IF n > lo THEN lo..(n - 1) ELSE {}

\* The positions of the slice one range samples from: contributors[lo:hi]
\* when len >= hi, contributors[lo:] when len > lo, and no sample otherwise.
RangePositions(n, lo, hi) ==
    IF n >= hi THEN lo..(hi - 1)
    ELSE IF n > lo THEN lo..(n - 1)
    ELSE {}

\* The sample size asked of random.sample, always 2.
SampleSizeTwo(slice_len) == 2

\* min(2, len(range_lo_hi))
SampleSize(slice_len) == Min(2, slice_len)

\* random.sample raises ValueError when asked for more than the slice holds.
SampleRaises(n, r) ==
    LET positions == RangePositions(n, RankRanges[r][1], RankRanges[r][2])
    IN  positions # {} /\ SampleSize(Cardinality(positions)) > Cardinality(positions)

\* How many positions at each end of a slice the explored samples draw from.
PickWindow == 2

\* The samples random.sample may return for one range, as sequences of
\* distinct positions; those drawn from the first PickWindow positions and
\* the last position of the slice are explored.
Samples(n, r) ==
    LET positions == RangePositions(n, RankRanges[r][1], RankRanges[r][2])
        k == SampleSize(Cardinality(positions))
        explored == {q \in positions :
                        \/ q < RankRanges[r][1] + PickWindow
                        \/ \A x \in positions : x <= q}
    IN  IF positions = {} THEN {<<>>}
        ELSE {smp \in [1..k -> explored] :
                 \A a, b \in 1..k : a # b => smp[a] # smp[b]}

\* The sizes of the contributor lists the API returns.
Populations == {0, 1, 25, 30, 31, 32, 39, 40, 41, 45, 50, 51, 60, 62, 70, 71, 72,
                99, 100, 130}

InitSampler ==
    /\ \E n \in Populations :
        population = [i \in 1..n |-> [login |-> i, contributions |-> 1 + ((i * 37) % 11)]]
    /\ ranked = None
    /\ selected = None
    /\ sampler_pc = "fetch"
    /\ contributions = <<>> /\ commits = <<>> /\ prs = <<>>
    /\ heatmap_data = None /\ consistency_score = None /\ consistency_locals = None
    /\ profile_metrics = <<>> /\ agent_metrics = <<>> /\ git_score_result = None
    /\ pr = <<>> /\ analyzed_pr = None
    /\ fetcher = "none" /\ attempt = 0 /\ requests_sent = 0 /\ resp = None
    /\ waits = <<>> /\ fetch_error = None /\ fetch_pc = "idle"
    /\ batch_mode = "none" /\ candidates = <<>> /\ mongodb_available = FALSE /\ idx = 0
    /\ processed = 0 /\ failed = 0 /\ skipped_bots = 0
    /\ results = <<>> /\ experts = <<>> /\ batch_pc = "idle"
    /\ drain = "none" /\ page = 1 /\ after = None /\ collected = 0
    /\ page_requests = 0 /\ sleeps = 0 /\ drain_pc = "idle"
    /\ sel_flow = "none" /\ pulls = <<>> /\ top_prs = None
    /\ merged_prs_total = None /\ time_taken_days = None

FetchTopContributors ==
    /\ sampler_pc = "fetch"
    /\ ranked' = Some(fetch_top_contributors(population))
    /\ sampler_pc' = "select"
    /\ UNCHANGED <<population, selected>>
    /\ UNCHANGED <<heatVars, scoreVars, prVars, fetchVars, batchVars, pageVars, selVars>>

\* select_normalized_contributors(contributors), one sample per rank range
SelectNormalizedContributors ==
    /\ sampler_pc = "select"
    /\ LET contributors == Val(ranked)
           n == Len(contributors)
           Picked(smp) == [i \in DOMAIN smp |->
                              [position |-> smp[i], contributor |-> contributors[smp[i] + 1]]]
       IN  IF \E r \in DOMAIN RankRanges : SampleRaises(n, r)
           THEN sampler_pc' = "raised" /\ UNCHANGED selected
           ELSE /\ \E s1 \in Samples(n, 1), s2 \in Samples(n, 2), s3 \in Samples(n, 3),
                      s4 \in Samples(n, 4), s5 \in Samples(n, 5) :
                       selected' = Some(Picked(s1) \o Picked(s2) \o Picked(s3)
                                        \o Picked(s4) \o Picked(s5))
                /\ sampler_pc' = "done"
    /\ UNCHANGED <<population, ranked>>
    /\ UNCHANGED <<heatVars, scoreVars, prVars, fetchVars, batchVars, pageVars, selVars>>

NextSampler ==
    \/ FetchTopContributors
    \/ SelectNormalizedContributors

SpecSampler == InitSampler /\ [][NextSampler]_vars

(***************************************************************************)
(* Fetcher: gql (fetch_prs_from_json.py) and github_request                *)
(* (github_service.py).  A response is its status code, its                *)
(* X-RateLimit-Remaining header and its body; status 0 stands for the      *)
(* request raising a RequestException instead of answering.  A body is     *)
(* whether it parses as JSON, whether the JSON holds the keys "errors" and *)
(* "data", and its text.                                                   *)
(***************************************************************************)
MAX_RETRIES == 8

\* backoff_sleep: the seconds slept for the attempt-th retry
backoff_wait(attempt_) == Min(60, 2 ^ attempt_)

Body(json, errors, data, text) ==
    [json |-> json, errors |-> errors, data |-> data, text |-> text]

\* The bodies the server answers with.
DataBody == Body(TRUE, FALSE, TRUE, <<>>)
RateLimitErrorsBody == Body(TRUE, TRUE, FALSE, <<"A", "P", "I", " ", "r", "a", "t", "e", " ", "l", "i", "m", "i", "t", " ", "e", "x", "c", "e", "e", "d", "e", "d">>)
OtherErrorsBody == Body(TRUE, TRUE, FALSE, <<"C", "o", "u", "l", "d", " ", "n", "o", "t", " ", "r", "e", "s", "o", "l", "v", "e", " ", "t", "o", " ", "a", " ", "n", "o", "d", "e">>)
HtmlBody == Body(FALSE, FALSE, FALSE, <<"<", "h", "t", "m", "l", ">">>)
SecondaryLimitBody == Body(TRUE, FALSE, FALSE, <<"Y", "o", "u", " ", "h", "a", "v", "e", " ", "e", "x", "c", "e", "e", "d", "e", "d", " ", "a", " ", "s", "e", "c", "o", "n", "d", "a", "r", "y", " ", "r", "a", "t", "e", " ", "l", "i", "m", "i", "t">>)
AbuseBody == Body(TRUE, FALSE, FALSE, <<"a", "b", "u", "s", "e", " ", "d", "e", "t", "e", "c", "t", "i", "o", "n", " ", "m", "e", "c", "h", "a", "n", "i", "s", "m">>)
MessageBody == Body(TRUE, FALSE, FALSE, <<"S", "e", "r", "v", "e", "r", " ", "E", "r", "r", "o", "r">>)
Bodies == {DataBody, RateLimitErrorsBody, OtherErrorsBody, HtmlBody,
           SecondaryLimitBody, AbuseBody, MessageBody}

Statuses == {200, 401, 403, 404, 500, 502, 503, 504}

\* X-RateLimit-Remaining: absent or unparsable (None), or its integer.
Remainings == {None, Some(0), Some(5), Some(4000)}

\* The request raised before any response arrived.
NoResponse == [status |-> 0, remaining |-> None, body |-> HtmlBody]

Responses == [status : Statuses, remaining : Remainings, body : Bodies] \cup {NoResponse}

\* One turn of gql's retry path: attempt += 1, then raise or back off.
GqlRetry(attempt_, error) ==
    IF attempt_ + 1 > MAX_RETRIES
    THEN [attempt |-> attempt_ + 1, pc |-> "raised", error |-> Some(error), slept |-> <<>>]
    ELSE [attempt |-> attempt_ + 1, pc |-> "send", error |-> None,
          slept |-> <<backoff_wait(attempt_ + 1)>>]

GqlRaise(attempt_, error) ==
    [attempt |-> attempt_, pc |-> "raised", error |-> Some(error), slept |-> <<>>]

\* One iteration of gql's while loop, for the response r to its request.
gql(r, attempt_) ==
    IF r.status = 0 THEN GqlRetry(attempt_, "RequestException")
    ELSE IF r.status \in {502, 503, 504}
    THEN GqlRetry(attempt_, "GitHub GraphQL repeatedly returned 5xx")
    ELSE IF r.status = 403
    THEN GqlRetry(attempt_, "GitHub GraphQL repeatedly returned 403 (rate limit?)")
    ELSE IF r.status = 401
    THEN GqlRaise(attempt_, "Unauthorized: check GITHUB_TOKEN")
    ELSE IF ~r.body.json
    THEN GqlRetry(attempt_, "GitHub GraphQL returned non-JSON too many times")
    ELSE IF r.body.errors
    THEN IF Contains(lower(r.body.text), <<"r", "a", "t", "e", " ", "l", "i", "m", "i", "t">>)
         THEN GqlRetry(attempt_, "GitHub GraphQL kept rate-limiting (see errors field)")
         ELSE GqlRaise(attempt_, "GraphQL errors")
    ELSE IF r.body.data
    THEN [attempt |-> attempt_, pc |-> "returned", error |-> None, slept |-> <<>>]
    ELSE GqlRaise(attempt_, "KeyError")

\* remaining_int is not None and remaining_int < bound
RemainingBelow(r, bound) == r.remaining # None /\ Val(r.remaining) < bound

\* 'secondary rate limit' in response_text or 'abuse detection' in response_text
is_secondary_rate_limit(r) ==
    \/ Contains(lower(r.body.text), <<"s", "e", "c", "o", "n", "d", "a", "r", "y", " ", "r", "a", "t", "e", " ", "l", "i", "m", "i", "t">>)
    \/ Contains(lower(r.body.text), <<"a", "b", "u", "s", "e", " ", "d", "e", "t", "e", "c", "t", "i", "o", "n">>)

\* github_request: what it raises for the response r, None when it returns.
github_request(r) ==
    IF r.status = 0 THEN Some("RequestException")
    ELSE IF r.status = 403
    THEN IF r.remaining = Some(0)
         THEN Some("GitHub API rate limit exceeded")
         ELSE IF is_secondary_rate_limit(r) \/ RemainingBelow(r, 10)
         THEN Some("GitHub API secondary rate limit or low rate limit")
         ELSE Some("GitHub API returned 403 (Forbidden)")
    ELSE IF r.status = 404 THEN Some("Repository not found")
    ELSE IF r.status >= 400 THEN Some("GitHub API error")
    ELSE None

InitFetch ==
    /\ fetcher \in {"gql", "github_request"}
    /\ attempt = 0 /\ requests_sent = 0 /\ resp = None
    /\ waits = <<>> /\ fetch_error = None /\ fetch_pc = "send"
    /\ contributions = <<>> /\ commits = <<>> /\ prs = <<>>
    /\ heatmap_data = None /\ consistency_score = None /\ consistency_locals = None
    /\ profile_metrics = <<>> /\ agent_metrics = <<>> /\ git_score_result = None
    /\ pr = <<>> /\ analyzed_pr = None
    /\ population = <<>> /\ ranked = None /\ selected = None /\ sampler_pc = "idle"
    /\ batch_mode = "none" /\ candidates = <<>> /\ mongodb_available = FALSE /\ idx = 0
    /\ processed = 0 /\ failed = 0 /\ skipped_bots = 0
    /\ results = <<>> /\ experts = <<>> /\ batch_pc = "idle"
    /\ drain = "none" /\ page = 1 /\ after = None /\ collected = 0
    /\ page_requests = 0 /\ sleeps = 0 /\ drain_pc = "idle"
    /\ sel_flow = "none" /\ pulls = <<>> /\ top_prs = None
    /\ merged_prs_total = None /\ time_taken_days = None

\* gql: one request, its response, and the sleep before the next request.
GqlRequest ==
    /\ fetcher = "gql" /\ fetch_pc = "send"
    /\ \E r \in Responses :
        /\ resp' = Some(r)
        /\ attempt' = gql(r, attempt).attempt
        /\ fetch_pc' = gql(r, attempt).pc
        /\ fetch_error' = gql(r, attempt).error
        /\ waits' = waits \o gql(r, attempt).slept
    /\ requests_sent' = requests_sent + 1
    /\ UNCHANGED fetcher
    /\ UNCHANGED <<heatVars, scoreVars, prVars, samplerVars, batchVars, pageVars, selVars>>

\* github_request: its one request and the response.
GithubRequest ==
    /\ fetcher = "github_request" /\ fetch_pc = "send"
    /\ \E r \in Responses :
        /\ resp' = Some(r)
        /\ fetch_error' = github_request(r)
        /\ fetch_pc' = IF github_request(r) = None THEN "returned" ELSE "raised"
    /\ requests_sent' = requests_sent + 1
    /\ UNCHANGED <<fetcher, attempt, waits>>
    /\ UNCHANGED <<heatVars, scoreVars, prVars, samplerVars, batchVars, pageVars, selVars>>

NextFetch == GqlRequest \/ GithubRequest

SpecFetch == InitFetch /\ [][NextFetch]_vars

(***************************************************************************)
(* Batch: process_candidates and process_candidates_from_csv               *)
(* (calculate_git_scores.py) over fetch_user_profile_metrics.  A candidate *)
(* is a username and what the GitHub API answers while that candidate is   *)
(* processed: "ok", "bot_type" (the user's type is Bot), "rate_limited"    *)
(* (every request gets HTTP 403 with X-RateLimit-Remaining: 0),            *)
(* "unauthorized" (every request gets HTTP 401) or "bad_json" (the user    *)
(* profile is answered with a body that is not JSON).                      *)
(***************************************************************************)
StartsWith(str, prefix) ==
    Len(prefix) <= Len(str) /\ SubSeq(str, 1, Len(prefix)) = prefix

EndsWith(str, suffix) ==
    Len(suffix) <= Len(str)
    /\ SubSeq(str, Len(str) - Len(suffix) + 1, Len(str)) = suffix

known_bots ==
    {<<"d", "e", "p", "e", "n", "d", "a", "b", "o", "t">>,
     <<"r", "e", "n", "o", "v", "a", "t", "e">>,
     <<"g", "r", "e", "e", "n", "k", "e", "e", "p", "e", "r">>,
     <<"s", "n", "y", "k", "-", "b", "o", "t">>,
     <<"c", "o", "d", "e", "c", "o", "v">>,
     <<"a", "l", "l", "c", "o", "n", "t", "r", "i", "b", "u", "t", "o", "r", "s">>,
     <<"s", "t", "a", "l", "e">>,
     <<"m", "e", "r", "g", "i", "f", "y">>,
     <<"i", "m", "g", "b", "o", "t">>,
     <<"g", "i", "t", "h", "u", "b", "-", "a", "c", "t", "i", "o", "n", "s">>,
     <<"a", "c", "t", "i", "o", "n", "s", "-", "u", "s", "e", "r">>,
     <<"p", "r", "e", "t", "t", "i", "e", "r", "-", "c", "i">>,
     <<"s", "e", "m", "a", "n", "t", "i", "c", "-", "r", "e", "l", "e", "a", "s", "e">>}

\* is_bot_user: the username patterns, then the API's type field
is_bot_user(username, user_type) ==
    \/ EndsWith(lower(username), <<"[", "b", "o", "t", "]">>)
    \/ EndsWith(lower(username), <<"-", "b", "o", "t">>)
    \/ EndsWith(lower(username), <<"_", "b", "o", "t">>)
    \/ StartsWith(lower(username), <<"b", "o", "t", "-">>)
    \/ StartsWith(lower(username), <<"b", "o", "t", "_">>)
    \/ lower(username) \in known_bots
    \/ lower(user_type) = <<"b", "o", "t">>

\* The type field of GET /users/{username}.
UserType(api) == IF api = "bot_type" THEN <<"B", "o", "t">> ELSE <<"U", "s", "e", "r">>

\* github_request raises for every request of this candidate.
RequestsFail(api) == api \in {"rate_limited", "unauthorized"}

\* The consistency score of a profile whose fetches all came back empty.
EmptyProfileConsistency ==
    calculate_consistency_score(Some(generate_contribution_heatmap(<<>>, <<>>)))

\* The metrics of a profile whose fetches all failed: each fetcher catches
\* the exception and returns 0, 0.0 or [].
EmptyProfileMetrics ==
    [total_prs_merged |-> Some(0), avg_prs_per_week |-> Some(0),
     consistency_score |-> Some(EmptyProfileConsistency), num_repos |-> Some(0)]

\* The metrics of the profile GitHub describes when it answers.
FetchedProfileMetrics ==
    [total_prs_merged |-> Some(12), avg_prs_per_week |-> Some(25),
     consistency_score |-> Some(4500), num_repos |-> Some(7)]

\* fetch_user_profile_metrics: the dict it returns, or what it raises.
fetch_user_profile_metrics(username, api) ==
    IF api = "bad_json" THEN Raised("ValueError: Expecting value")
    ELSE IF ~RequestsFail(api) /\ is_bot_user(username, UserType(api))
    THEN Raised("ValueError: is a bot account and will be skipped")
    ELSE IF RequestsFail(api) THEN EmptyProfileMetrics
    ELSE FetchedProfileMetrics

\* candidate_data['scores'] as the agent wrote it.
AgentScores == [comment_quality |-> Some(35000), pr_quality |-> Some(40000)]

\* The scores process_candidate_from_csv uses when no PR was found.
DefaultScores == [pr_quality |-> None, comment_quality |-> None, time_taken |-> None]

\* extract_agent_metrics: scores.get(key) for the three keys
extract_agent_metrics(scores) ==
    [k \in AgentKeys |-> Get(scores, k, None)]

\* The result dict of a candidate, and whether it was written to MongoDB.
CandidateResult(username, pm, am, stored) ==
    [username |-> username,
     git_score |-> calculate_git_score(pm, am).git_score,
     breakdown |-> calculate_git_score(pm, am).breakdown,
     profile_metrics |-> pm,
     agent_metrics |-> am,
     mongodb_stored |-> stored]

\* The body of the try block once the metrics are fetched.
ScoreAndStore(username, pm, am, stored) ==
    IF "raised" \in DOMAIN pm THEN pm
    ELSE CandidateResult(username, pm, am, stored)

\* The try block of process_candidates for one candidate: "bot" for the
\* username check, else the result dict or what was raised.
ProcessCandidate(c, stored) ==
    IF is_bot_user(c.username, <<>>) THEN Raised("bot")
    ELSE ScoreAndStore(c.username, fetch_user_profile_metrics(c.username, c.api),
                       extract_agent_metrics(AgentScores), stored)

\* process_candidate_from_csv: the result dict, or None for a bot and for
\* every exception.
process_candidate_from_csv(c, stored) ==
    IF is_bot_user(c.username, <<>>) THEN None
    ELSE IF "raised" \in DOMAIN fetch_user_profile_metrics(c.username, c.api) THEN None
    ELSE Some(CandidateResult(
                  c.username, fetch_user_profile_metrics(c.username, c.api),
                  extract_agent_metrics(IF RequestsFail(c.api) THEN DefaultScores
                                        ELSE AgentScores),
                  stored))

\* "bot account" in str(e).lower(), or the username check
IsBotSkip(outcome) ==
    "raised" \in DOMAIN outcome
    /\ outcome.raised \in {"bot", "ValueError: is a bot account and will be skipped"}

MaxCandidates == 3

Digits == <<"1", "2", "3", "4", "5", "6", "7", "8", "9">>

\* The username of the i-th candidate: a person's, or one ending in -Bot.
Username(i, bot) ==
    <<"d", "e", "v">> \o <<Digits[i]>> \o (IF bot THEN <<"-", "B", "o", "t">> ELSE <<>>)

ApiAnswers == {"ok", "bot_type", "rate_limited", "unauthorized", "bad_json"}

CandidateLists ==
    UNION {{[i \in 1..n |-> [username |-> Username(i, b[i]), api |-> a[i]]] :
                <<b, a>> \in [1..n -> BOOLEAN] \X [1..n -> ApiAnswers]} : n \in 1..MaxCandidates}

InitBatch ==
    /\ batch_mode \in {"json", "csv"}
    /\ candidates \in CandidateLists
    /\ mongodb_available \in BOOLEAN
    /\ idx = 0 /\ processed = 0 /\ failed = 0 /\ skipped_bots = 0
    /\ results = <<>> /\ experts = <<>> /\ batch_pc = "loop"
    /\ contributions = <<>> /\ commits = <<>> /\ prs = <<>>
    /\ heatmap_data = None /\ consistency_score = None /\ consistency_locals = None
    /\ profile_metrics = <<>> /\ agent_metrics = <<>> /\ git_score_result = None
    /\ pr = <<>> /\ analyzed_pr = None
    /\ population = <<>> /\ ranked = None /\ selected = None /\ sampler_pc = "idle"
    /\ fetcher = "none" /\ attempt = 0 /\ requests_sent = 0 /\ resp = None
    /\ waits = <<>> /\ fetch_error = None /\ fetch_pc = "idle"
    /\ drain = "none" /\ page = 1 /\ after = None /\ collected = 0
    /\ page_requests = 0 /\ sleeps = 0 /\ drain_pc = "idle"
    /\ sel_flow = "none" /\ pulls = <<>> /\ top_prs = None
    /\ merged_prs_total = None /\ time_taken_days = None

\* What upsert_expert writes for a result.
ExpertDocument(result) ==
    [github_username |-> result.username, git_score |-> result.git_score]

\* AppendResult that appends the result and leaves processed as it was.
AppendResultUncounted(result) ==
    /\ results' = Append(results, result)
    /\ experts' = IF mongodb_available THEN Append(experts, ExpertDocument(result))
                  ELSE experts
    /\ processed' = processed

\* The counters and lists after a candidate that gave a result.
AppendResult(result) ==
    /\ results' = Append(results, result)
    /\ experts' = IF mongodb_available THEN Append(experts, ExpertDocument(result))
                  ELSE experts
    /\ processed' = processed + 1

\* process_candidates: one iteration of its loop.
ProcessCandidates ==
    /\ batch_mode = "json" /\ batch_pc = "loop" /\ idx < Len(candidates)
    /\ idx' = idx + 1
    /\ \E outcome \in {ProcessCandidate(candidates[idx + 1], mongodb_available)} :
        IF "raised" \notin DOMAIN outcome
        THEN AppendResult(outcome) /\ UNCHANGED <<failed, skipped_bots>>
        ELSE IF IsBotSkip(outcome)
        THEN /\ skipped_bots' = skipped_bots + 1
             /\ UNCHANGED <<processed, failed, results, experts>>
        ELSE /\ failed' = failed + 1
             /\ UNCHANGED <<processed, skipped_bots, results, experts>>
    /\ UNCHANGED <<batch_mode, candidates, mongodb_available, batch_pc>>
    /\ UNCHANGED <<heatVars, scoreVars, prVars, samplerVars, fetchVars, pageVars, selVars>>

\* process_candidates_from_csv: one iteration of its loop.
ProcessCandidatesFromCsv ==
    /\ batch_mode = "csv" /\ batch_pc = "loop" /\ idx < Len(candidates)
    /\ idx' = idx + 1
    /\ \E result \in {process_candidate_from_csv(candidates[idx + 1], mongodb_available)} :
        IF result # None
        THEN AppendResult(Val(result)) /\ UNCHANGED <<failed, skipped_bots>>
        ELSE /\ skipped_bots' = skipped_bots + 1
             /\ UNCHANGED <<processed, failed, results, experts>>
    /\ UNCHANGED <<batch_mode, candidates, mongodb_available, batch_pc>>
    /\ UNCHANGED <<heatVars, scoreVars, prVars, samplerVars, fetchVars, pageVars, selVars>>

\* The loop is over: the summary dict is returned.
ReturnSummary ==
    /\ batch_pc = "loop" /\ idx = Len(candidates)
    /\ batch_pc' = "returned"
    /\ UNCHANGED <<batch_mode, candidates, mongodb_available, idx, processed, failed,
                   skipped_bots, results, experts>>
    /\ UNCHANGED <<heatVars, scoreVars, prVars, samplerVars, fetchVars, pageVars, selVars>>

NextBatch == ProcessCandidates \/ ProcessCandidatesFromCsv \/ ReturnSummary

SpecBatch == InitBatch /\ [][NextBatch]_vars

(***************************************************************************)
(* Pages: the pagination drains fetch_all_pages (github_service.py) and    *)
(* fetch_all_comments, fetch_all_reviews (fetch_prs_from_json.py).  One    *)
(* action is one iteration of the drain's `while True` loop with whatever  *)
(* the server answers to that request.  The two counters stop counting at  *)
(* MaxCounted, so that a drain that never ends is a cycle of states.       *)
(***************************************************************************)
per_page == 100

\* page > 10: the safety limit of fetch_all_pages
PageSafetyLimit == 10

MaxCounted == 40

Counted(n) == Min(n, MaxCounted)

\* What github_request(url_with_page).json() gives: a list of some length,
\* another JSON value, or an exception (from github_request or from .json()).
ListPage(length) == [kind |-> "list", length |-> length]

PageAnswers ==
    {ListPage(n) : n \in {0, 57, per_page, per_page + 1}}
        \cup {[kind |-> "object"], [kind |-> "raises"]}

\* What gql(QUERY, {"prId": pr_id, "after": after}) gives: the data with the
\* connection's nodes and pageInfo, data without the node, or an exception.
Connection(nodes, hasNextPage, endCursor) ==
    [kind |-> "connection", nodes |-> nodes, hasNextPage |-> hasNextPage,
     endCursor |-> endCursor]

Cursors == {None, Some(1), Some(2)}

CursorAnswers ==
    {Connection(n, h, c) : n \in {0, 1}, h \in {None, Some(TRUE), Some(FALSE)},
                           c \in Cursors}
        \cup {[kind |-> "no_node"], [kind |-> "raises"]}

\* not pi.get("hasNextPage")
LastPage(answer) ==
    answer.kind = "no_node" \/ answer.hasNextPage \in {None, Some(FALSE)}

InitPages ==
    /\ drain \in {"fetch_all_pages", "fetch_all_comments", "fetch_all_reviews"}
    /\ page = 1 /\ after = None /\ collected = 0 /\ page_requests = 0 /\ sleeps = 0
    /\ drain_pc = "loop"
    /\ contributions = <<>> /\ commits = <<>> /\ prs = <<>>
    /\ heatmap_data = None /\ consistency_score = None /\ consistency_locals = None
    /\ profile_metrics = <<>> /\ agent_metrics = <<>> /\ git_score_result = None
    /\ pr = <<>> /\ analyzed_pr = None
    /\ population = <<>> /\ ranked = None /\ selected = None /\ sampler_pc = "idle"
    /\ fetcher = "none" /\ attempt = 0 /\ requests_sent = 0 /\ resp = None
    /\ waits = <<>> /\ fetch_error = None /\ fetch_pc = "idle"
    /\ batch_mode = "none" /\ candidates = <<>> /\ mongodb_available = FALSE /\ idx = 0
    /\ processed = 0 /\ failed = 0 /\ skipped_bots = 0
    /\ results = <<>> /\ experts = <<>> /\ batch_pc = "idle"
    /\ sel_flow = "none" /\ pulls = <<>> /\ top_prs = None
    /\ merged_prs_total = None /\ time_taken_days = None

\* fetch_all_pages: one iteration of its loop.
FetchAllPages ==
    /\ drain = "fetch_all_pages" /\ drain_pc = "loop"
    /\ page_requests' = Counted(page_requests + 1)
    /\ \E answer \in PageAnswers :
        IF answer.kind = "raises"
        THEN drain_pc' = "raised" /\ UNCHANGED <<page, collected>>
        ELSE IF answer.kind = "object"
        THEN drain_pc' = "returned" /\ collected' = collected + 1 /\ UNCHANGED page
        ELSE /\ collected' = collected + answer.length
             /\ IF answer.length < per_page
                THEN drain_pc' = "returned" /\ UNCHANGED page
                ELSE /\ page' = page + 1
                     /\ drain_pc' = IF page + 1 > PageSafetyLimit THEN "returned"
                                    ELSE "loop"
    /\ UNCHANGED <<drain, after, sleeps>>
    /\ UNCHANGED <<heatVars, scoreVars, prVars, samplerVars, fetchVars, batchVars, selVars>>

\* One iteration of the loop of a cursor drain.
CursorPage ==
    /\ drain_pc = "loop"
    /\ page_requests' = Counted(page_requests + 1)
    /\ \E answer \in CursorAnswers :
        IF answer.kind = "raises"
        THEN drain_pc' = "raised" /\ UNCHANGED <<after, collected, sleeps>>
        ELSE /\ collected' = Counted(collected + (IF answer.kind = "no_node" THEN 0
                                                  ELSE answer.nodes))
             /\ IF LastPage(answer)
                THEN drain_pc' = "returned" /\ UNCHANGED <<after, sleeps>>
                ELSE /\ drain_pc' = "loop" /\ after' = answer.endCursor
                     /\ sleeps' = Counted(sleeps + 1)
    /\ UNCHANGED <<drain, page>>
    /\ UNCHANGED <<heatVars, scoreVars, prVars, samplerVars, fetchVars, batchVars, selVars>>

\* fetch_all_comments: one iteration of its loop.
FetchAllComments ==
    /\ drain = "fetch_all_comments"
    /\ CursorPage

\* fetch_all_reviews: one iteration of its loop.
FetchAllReviews ==
    /\ drain = "fetch_all_reviews"
    /\ CursorPage

NextPages == FetchAllPages \/ FetchAllComments \/ FetchAllReviews

SpecPages == InitPages /\ [][NextPages]_vars

\* Each iteration of a running drain is eventually executed.
FairSpecPages == SpecPages /\ WF_vars(NextPages)

(***************************************************************************)
(* Selection: fetch_contributor_prs and analyze_contributor                *)
(* (github_service.py), get_top_3_prs_for_user (calculate_git_scores.py),  *)
(* the merged PR count of fetch_user_merged_prs_last_year                  *)
(* (git_profile_service.py) and calculate_pr_time_taken over the PRs of    *)
(* main (fetch_prs_from_json.py).  Dates are day numbers.                  *)
(***************************************************************************)
\* pr.get('merged_at') is truthy
IsMerged(p) == p.merged_at # None

\* fetch_contributor_prs: of issues[:100], the PRs that carry merged_at
fetch_contributor_prs(issues) ==
    SelectSeq(SubSeq(issues, 1, Min(100, Len(issues))), IsMerged)

\* {**pr, 'score': score, ...} for each PR, in the order of prs
AnalyzedPRs(ps) ==
    [i \in DOMAIN ps |->
        [number |-> ps[i].number, merged_at |-> ps[i].merged_at,
         score |-> analyze_pr(ps[i], ps[i].files_changed, ps[i].lines_of_code,
                              ps[i].commits_count).score]]

\* The place of analyzed_prs[i] after the sort when equal scores are reversed.
PlaceTiesReversed(analyzed_prs, i) ==
    Cardinality({j \in DOMAIN analyzed_prs :
                    \/ analyzed_prs[j].score > analyzed_prs[i].score
                    \/ analyzed_prs[j].score = analyzed_prs[i].score /\ j > i}) + 1

\* The place of analyzed_prs[i] after
\* analyzed_prs.sort(key=lambda x: x.get('score', 0), reverse=True),
\* a stable sort: equal scores keep their order.
Place(analyzed_prs, i) ==
    Cardinality({j \in DOMAIN analyzed_prs :
                    \/ analyzed_prs[j].score > analyzed_prs[i].score
                    \/ analyzed_prs[j].score = analyzed_prs[i].score /\ j < i}) + 1

SortByScore(analyzed_prs) ==
    [k \in DOMAIN analyzed_prs |->
        analyzed_prs[CHOOSE i \in DOMAIN analyzed_prs : Place(analyzed_prs, i) = k]]

\* analyzed_prs.sort(...); analyzed_prs[:3]
TopThree(analyzed_prs) ==
    SubSeq(SortByScore(analyzed_prs), 1, Min(3, Len(analyzed_prs)))

\* get_top_3_prs_for_user, and the top_prs of analyze_contributor
get_top_3_prs_for_user(issues) ==
    TopThree(AnalyzedPRs(fetch_contributor_prs(issues)))

\* calculate_pr_time_taken: days from created_at to merged_at, else to
\* closed_at, None when the PR has neither or no created_at
calculate_pr_time_taken(p) ==
    IF p.created_at = None THEN None
    ELSE IF p.merged_at # None THEN Some(Val(p.merged_at) - Val(p.created_at))
    ELSE IF p.closed_at # None THEN Some(Val(p.closed_at) - Val(p.created_at))
    ELSE None

MaxPulls == 4

\* What the API answers for a PR: merged, with no priority label, one or
\* two; closed without a merge; or open.
PullAnswers ==
    {[merged_at |-> Some(103), closed_at |-> Some(103), labels |-> lb] :
         lb \in {LabelsOf({}, 1), LabelsOf({3}, 1), LabelsOf({1, 3}, 1)}}
    \cup {[merged_at |-> None, closed_at |-> Some(110), labels |-> LabelsOf({3}, 1)],
          [merged_at |-> None, closed_at |-> None, labels |-> LabelsOf({}, 1)]}

PullLists ==
    UNION {{[i \in 1..n |->
                [number |-> i, created_at |-> Some(100), merged_at |-> a[i].merged_at,
                 closed_at |-> a[i].closed_at, labels |-> a[i].labels,
                 files_changed |-> 3, lines_of_code |-> 120, commits_count |-> 2]] :
               a \in [1..n -> PullAnswers]} : n \in 0..MaxPulls}

InitSelect ==
    /\ sel_flow \in {"analyze_contributor", "get_top_3_prs_for_user", "main"}
    /\ pulls \in PullLists
    /\ top_prs = None /\ merged_prs_total = None /\ time_taken_days = None
    /\ contributions = <<>> /\ commits = <<>> /\ prs = <<>>
    /\ heatmap_data = None /\ consistency_score = None /\ consistency_locals = None
    /\ profile_metrics = <<>> /\ agent_metrics = <<>> /\ git_score_result = None
    /\ pr = <<>> /\ analyzed_pr = None
    /\ population = <<>> /\ ranked = None /\ selected = None /\ sampler_pc = "idle"
    /\ fetcher = "none" /\ attempt = 0 /\ requests_sent = 0 /\ resp = None
    /\ waits = <<>> /\ fetch_error = None /\ fetch_pc = "idle"
    /\ batch_mode = "none" /\ candidates = <<>> /\ mongodb_available = FALSE /\ idx = 0
    /\ processed = 0 /\ failed = 0 /\ skipped_bots = 0
    /\ results = <<>> /\ experts = <<>> /\ batch_pc = "idle"
    /\ drain = "none" /\ page = 1 /\ after = None /\ collected = 0
    /\ page_requests = 0 /\ sleeps = 0 /\ drain_pc = "idle"

\* analyze_contributor: top_prs of the contributor's merged PRs
AnalyzeContributor ==
    /\ sel_flow = "analyze_contributor" /\ top_prs = None
    /\ top_prs' = Some(get_top_3_prs_for_user(pulls))
    /\ UNCHANGED <<sel_flow, pulls, merged_prs_total, time_taken_days>>
    /\ UNCHANGED <<heatVars, scoreVars, prVars, samplerVars, fetchVars, batchVars, pageVars>>

\* get_top_3_prs_for_user
GetTop3PrsForUser ==
    /\ sel_flow = "get_top_3_prs_for_user" /\ top_prs = None
    /\ top_prs' = Some(get_top_3_prs_for_user(pulls))
    /\ UNCHANGED <<sel_flow, pulls, merged_prs_total, time_taken_days>>
    /\ UNCHANGED <<heatVars, scoreVars, prVars, samplerVars, fetchVars, batchVars, pageVars>>

\* fetch_user_merged_prs_last_year: total_prs_merged = len(all_prs)
FetchUserMergedPrsLastYear ==
    /\ sel_flow # "main" /\ merged_prs_total = None
    /\ merged_prs_total' = Some(Len(SelectSeq(pulls, IsMerged)))
    /\ UNCHANGED <<sel_flow, pulls, top_prs, time_taken_days>>
    /\ UNCHANGED <<heatVars, scoreVars, prVars, samplerVars, fetchVars, batchVars, pageVars>>

\* main: time_taken_days over top_3_prs, the three PRs of the candidate's
\* pr_links whose quality score (given by the language model) is highest
CalculateTimeTaken ==
    /\ sel_flow = "main" /\ time_taken_days = None
    /\ \E top_3 \in SUBSET DOMAIN pulls :
        /\ Cardinality(top_3) = Min(3, Len(pulls))
        /\ time_taken_days' =
               Some({[number |-> pulls[i].number,
                      days |-> Val(calculate_pr_time_taken(pulls[i]))] :
                        i \in {j \in top_3 : calculate_pr_time_taken(pulls[j]) # None}})
    /\ UNCHANGED <<sel_flow, pulls, top_prs, merged_prs_total>>
    /\ UNCHANGED <<heatVars, scoreVars, prVars, samplerVars, fetchVars, batchVars, pageVars>>

NextSelect ==
    \/ AnalyzeContributor
    \/ GetTop3PrsForUser
    \/ FetchUserMergedPrsLastYear
    \/ CalculateTimeTaken

SpecSelect == InitSelect /\ [][NextSelect]_vars

(***************************************************************************)
(* Properties.                                                             *)
(***************************************************************************)
HeatmapBuilt == heatmap_data # None /\ Val(heatmap_data) # <<>>
Scored == consistency_score # None

\* One more contribution on day d, in the source the heatmap is built from.
ContributionsWith(d) ==
    LET s == strftime(d)
        Same(c) == c.date = s
        Earlier(c) == c.date.y > s.y \/ (c.date.y = s.y /\ strptime(c.date) < d)
        Later(c) == ~Earlier(c)
    IN  IF \E i \in DOMAIN contributions : Same(contributions[i])
        THEN [i \in DOMAIN contributions |->
                 IF Same(contributions[i])
                 THEN [contributions[i] EXCEPT !.count = @ + 1]
                 ELSE contributions[i]]
        ELSE SelectSeq(contributions, Earlier) \o <<[date |-> s, count |-> 1]>>
             \o SelectSeq(contributions, Later)

\* The score of the same profile with one more contribution on day d.
ScoreWith(d) ==
    calculate_consistency_score(Some(
        IF contributions # <<>>
        THEN generate_heatmap_from_contributions(ContributionsWith(d), prs)
        ELSE generate_contribution_heatmap(Append(commits, [date |-> strftime(d)]), prs)))

\* The ISO week of day d holds a non-zero cell of the heatmap.
WeekHasContributions(d) ==
    \E c \in Range(FlattenYears(Val(heatmap_data), 1)) :
        week_key(strptime(c.date)) = week_key(d)

\* The days a further contribution is tried on.
ProbeDates ==
    {ymd2ord(2024, 1, 10), ymd2ord(2024, 7, 3), ymd2ord(2024, 12, 30),
     ymd2ord(2025, 6, 18), ymd2ord(2025, 12, 24), ymd2ord(2025, 12, 30),
     ymd2ord(2026, 3, 3), ymd2ord(2026, 12, 30)}

\* C2 as claimed: for any heatmap, one more contribution in an ISO week that
\* already has contributions never lowers the consistency score.
AddToActiveWeekNeverLowers ==
    (Scored /\ HeatmapBuilt) =>
        \A d \in ProbeDates :
            WeekHasContributions(d) => ScoreWith(d) >= Val(consistency_score)

\* C2 amended: one more contribution on a day of the analysis year, in an ISO
\* week that already has contributions, never lowers the consistency score.
AddToActiveWeekOfAnalysisYearNeverLowers ==
    (Scored /\ HeatmapBuilt /\ consistency_locals # None) =>
        \A d \in ProbeDates :
            (WeekHasContributions(d)
             /\ YearOfOrd(d) = Val(consistency_locals).analysis_year)
                => ScoreWith(d) >= Val(consistency_score)

\* C2 witness: a scored profile where a contribution added to an active week
\* of the analysis year lifts that week to the next tier and raises the score.
AddToActiveWeekRaises ==
    /\ Scored /\ HeatmapBuilt /\ consistency_locals # None
    /\ \E d \in ProbeDates :
        /\ WeekHasContributions(d)
        /\ YearOfOrd(d) = Val(consistency_locals).analysis_year
        /\ ScoreWith(d) > Val(consistency_score)

\* C3 as claimed: for any heatmap, a contribution in an ISO week that had
\* none never lowers the consistency score.
ActivatingWeekNeverLowers ==
    (Scored /\ HeatmapBuilt) =>
        \A d \in ProbeDates :
            ~WeekHasContributions(d) => ScoreWith(d) >= Val(consistency_score)

\* C4: the score respects the activity floor of its active_weeks tier.
ActivityFloorsHold ==
    consistency_locals # None =>
        LET aw == Val(consistency_locals).active_weeks
            score == Val(consistency_score)
        IN  /\ aw >= 30 => score >= 6500
            /\ aw >= 25 => score >= 5500
            /\ aw >= 20 => score >= 4500
            /\ aw >= 15 => score >= 3500
            /\ aw >= 10 => score >= 2500
            /\ aw >= 5 => score >= 1500
            /\ aw >= 3 => score >= 1000

\* C4 witness: exactly 30 active weeks followed by a 22-week gap, where the
\* formula alone gives less than 65 and the floor decides the score.
FloorOf30Applies ==
    /\ consistency_locals # None
    /\ Val(consistency_locals).active_weeks = 30
    /\ Val(consistency_locals).longest_gap = 22
    /\ consistency_index(Val(consistency_locals)) < 65 * 5200
    /\ consistency_score = Some(6500)

NoCellCounted ==
    \A n \in DOMAIN Val(heatmap_data) :
        \A i \in DOMAIN Val(heatmap_data)[n].data :
            Val(heatmap_data)[n].data[i].count <= 0

\* C5: the score lies in [0,100], and is exactly 0.0 for a heatmap that is
\* None, empty, or without a cell of count > 0.
ConsistencyInRangeAndZeroWithoutData ==
    Scored =>
        /\ 0 <= Val(consistency_score) /\ Val(consistency_score) <= 10000
        /\ (heatmap_data = None \/ Val(heatmap_data) = <<>> \/ NoCellCounted)
               => Val(consistency_score) = 0

\* C5 witness: a built heatmap of three all-zero years, scored 0.0.
AllZeroHeatmapScoredZero ==
    /\ Scored /\ HeatmapBuilt /\ NoCellCounted
    /\ Len(Val(heatmap_data)) = 3
    /\ consistency_score = Some(0)

\* C9: every year of a built heatmap has exactly 364 cells, one for each
\* (week, day) of 0..51 x 0..6 in order, each with a value in 0..4, and all
\* values are 0 when no cell of the year has a count.
HeatmapHas364Cells ==
    HeatmapBuilt =>
        \A n \in DOMAIN Val(heatmap_data) :
            LET data == Val(heatmap_data)[n].data
            IN  /\ Len(data) = 364
                /\ \A i \in 1..Len(data) :
                    /\ data[i].week = (i - 1) \div 7 /\ data[i].week \in 0..51
                    /\ data[i].day = (i - 1) % 7
                    /\ data[i].value \in 0..4
                /\ (\A i \in 1..Len(data) : data[i].count = 0)
                       => \A i \in 1..Len(data) : data[i].value = 0

\* C9 witness: a heatmap built from empty lists, with 364 cells in each of
\* its three years.
EmptyListsGiveFullGrid ==
    /\ HeatmapBuilt
    /\ contributions = <<>> /\ commits = <<>> /\ prs = <<>>
    /\ \A n \in DOMAIN Val(heatmap_data) : Len(Val(heatmap_data)[n].data) = 364

\* The profile is one burst of merged PRs inside one ISO week.
BurstInOneWeek ==
    /\ contributions = <<>> /\ commits = <<>>
    /\ Len(prs) = BurstSize
    /\ \A i \in DOMAIN prs :
        week_key(strptime(Val(prs[i].merged_at)))
            = week_key(strptime(Val(prs[1].merged_at)))

BurstWeek == week_key(strptime(Val(prs[1].merged_at)))

InRange(x) == 0 <= x /\ x <= 10000

\* calculate_git_score has returned its dict.
GitScoreReturned ==
    git_score_result # None /\ "git_score" \in DOMAIN Val(git_score_result)

\* C1: whatever the metrics (any number, and any agent metric a number, None
\* or absent), the git_score and the six breakdown values returned lie in
\* [0,100].
GitScoreAndBreakdownInRange ==
    GitScoreReturned =>
        LET r == Val(git_score_result)
        IN  /\ InRange(r.git_score)
            /\ \A k \in DOMAIN r.breakdown : InRange(r.breakdown[k])
            /\ DOMAIN r.breakdown = {"pr_activity", "consistency", "comment_quality",
                                     "pr_quality", "time_taken", "num_repos"}

\* C1 witness: a score computed with one agent metric absent, one None and
\* one far above 5, and with a negative consistency input.
GitScoreOfExtremeMetrics ==
    /\ GitScoreReturned
    /\ DOMAIN agent_metrics = {"pr_quality", "time_taken"}
    /\ agent_metrics["pr_quality"] = None
    /\ agent_metrics["time_taken"] = Some(Huge)
    /\ "consistency_score" \in DOMAIN profile_metrics
    /\ profile_metrics["consistency_score"] = Some(-100)
    /\ Val(git_score_result).breakdown.comment_quality = 5000
    /\ Val(git_score_result).breakdown.time_taken = 10000
    /\ Val(git_score_result).breakdown.consistency = 0

\* The value agent_metrics.get(key) gives: None when the key is absent.
AgentMetric(key) == Get(agent_metrics, key, None)

\* C11: an agent metric that is absent from agent_metrics or is None gets
\* exactly 50.0 in the returned breakdown.
AbsentAgentMetricScores50 ==
    GitScoreReturned =>
        \A k \in AgentKeys :
            AgentMetric(k) = None => Val(git_score_result).breakdown[k] = 5000

\* C11 witness: agent_metrics = {} was scored and all three are 50.0.
EmptyAgentMetricsScored ==
    /\ GitScoreReturned
    /\ DOMAIN agent_metrics = {}
    /\ \A k \in AgentKeys : Val(git_score_result).breakdown[k] = 5000

\* The value profile_metrics.get(key) gives: None when the key is absent.
ProfileMetric(key) == Get(profile_metrics, key, None)

\* C12 as claimed: calculate_git_score never raises, and a sub-score whose
\* inputs are missing or None is the neutral 50.0.
MissingInputScoresNeutral ==
    git_score_result # None =>
        /\ GitScoreReturned
        /\ \A k \in AgentKeys :
               AgentMetric(k) = None => Val(git_score_result).breakdown[k] = 5000
        /\ \A k \in {"consistency", "num_repos"} :
               ProfileMetric(IF k = "consistency" THEN "consistency_score" ELSE k) = None
                   => Val(git_score_result).breakdown[k] = 5000
        /\ (ProfileMetric("total_prs_merged") = None
               /\ ProfileMetric("avg_prs_per_week") = None)
                   => Val(git_score_result).breakdown.pr_activity = 5000

\* The sum of the six values of a breakdown.
BreakdownSum(b) ==
    b.pr_activity + b.consistency + b.comment_quality
    + b.pr_quality + b.time_taken + b.num_repos

\* git_score is the mean of the six returned sub-scores, clamped and rounded,
\* and pr_activity is 0.6 * tier(total_prs_merged) + 0.4 * tier(avg_prs_per_week).
MeanOfBreakdown ==
    LET r == Val(git_score_result)
    IN  /\ r.git_score = Round2(Max(0, Min(10000 * 6, BreakdownSum(r.breakdown))), 600)
        /\ r.breakdown.pr_activity
               = 60 * pr_count_score(Val(Get(profile_metrics, "total_prs_merged", Some(0))))
                 + 40 * frequency_score(Val(Get(profile_metrics, "avg_prs_per_week", Some(0))))

\* An agent metric given as a number within 0-5.
AgentMetricGiven(key) ==
    /\ AgentMetric(key) # None
    /\ 0 <= Val(AgentMetric(key)) /\ Val(AgentMetric(key)) <= 50000

\* C13 as claimed: git_score is the mean of the breakdown and each agent
\* sub-score is exactly 20 times its 0-5 input.
GitScoreIsMeanAndAgentScoresAre20Times ==
    GitScoreReturned =>
        /\ MeanOfBreakdown
        /\ \A k \in AgentKeys :
               AgentMetricGiven(k) =>
                   Val(git_score_result).breakdown[k] * 100 = 20 * Val(AgentMetric(k))

\* C13: git_score is the mean of the six returned sub-scores, clamped to
\* [0,100] and rounded to two decimals; pr_activity is 0.6 and 0.4 of the two
\* tiers; each agent sub-score is 20 times its 0-5 input rounded to two
\* decimals.
GitScoreIsMeanAndAgentScoresAre20TimesRounded ==
    GitScoreReturned =>
        /\ MeanOfBreakdown
        /\ \A k \in AgentKeys :
               AgentMetricGiven(k) =>
                   Val(git_score_result).breakdown[k] = Round2(20 * Val(AgentMetric(k)), 10000)

\* C13 witness: 3 merged PRs at 65.43 a week score 0.6 * 40 + 0.4 * 100 = 64.0,
\* and comment_quality 2.4999 is scored 50.0.
AgentMetricOffGridScored ==
    /\ GitScoreReturned
    /\ ProfileMetric("total_prs_merged") = Some(3)
    /\ ProfileMetric("avg_prs_per_week") = Some(6543)
    /\ AgentMetric("comment_quality") = Some(24999)
    /\ Val(git_score_result).breakdown.pr_activity = 6400
    /\ Val(git_score_result).breakdown.comment_quality = 5000

\* C6 as claimed: the score analyze_pr computes is on a 0-100 scale.
PRScoreWithin100 ==
    analyzed_pr # None =>
        0 <= Val(analyzed_pr).score /\ Val(analyzed_pr).score <= 100 * 250

LabelNames == {Get(pr.labels[i], "name", <<>>) : i \in DOMAIN Get(pr, "labels", <<>>)}

\* C7: score = label_score + min(files/50*20, 20) + min(loc/5000*20, 20)
\* + min(commits/20*20, 20), each volume term in [0,20], so score <=
\* label_score + 60, and <= 80 for a PR labelled only bounty and feature
\* with 500 files, 100000 LOC and 500 commits.
PRScoreIsLabelPlusCappedTerms ==
    analyzed_pr # None =>
        LET a == Val(analyzed_pr)
            files == Min(a.files_changed * 100, 5000)
            loc == Min(a.lines_of_code, 5000)
            cmts == Min(a.commits_count * 250, 5000)
        IN  /\ a.score = a.label_score * 250 + files + loc + cmts
            /\ a.score >= a.label_score * 250
            /\ a.score <= (a.label_score + 60) * 250
            /\ (/\ LabelNames = {LabelPool[1], LabelPool[3]}
                /\ a.files_changed = 500 /\ a.lines_of_code = 100000
                /\ a.commits_count = 500) => (a.label_score = 20 /\ a.score <= 80 * 250)

\* C7 witness: the PR labelled bounty and feature with 500 files, 100000 LOC
\* and 500 commits, analyzed to exactly 80 points.
BountyFeaturePRScores80 ==
    /\ analyzed_pr # None
    /\ LabelNames = {LabelPool[1], LabelPool[3]}
    /\ Val(analyzed_pr).files_changed = 500
    /\ Val(analyzed_pr).lines_of_code = 100000
    /\ Val(analyzed_pr).commits_count = 500
    /\ Val(analyzed_pr).score = 80 * 250

\* The number of list positions below n inside rank range r.
PositionsBelow(n, r) ==
    Cardinality({q \in RankRanges[r][1]..(RankRanges[r][2] - 1) : q < n})

\* C8: for a ranked list of n <= 100 contributors the sampler never raises
\* and returns the sum over the five rank ranges of min(2, positions below n
\* in the range): 10 for n = 100 and 0 for n <= 30.
SamplerReturnsTwoPerRange ==
    /\ sampler_pc # "raised"
    /\ sampler_pc = "done" =>
        LET n == Len(Val(ranked))
            size == Len(Val(selected))
        IN  /\ n <= 100
            /\ size = Min(2, PositionsBelow(n, 1)) + Min(2, PositionsBelow(n, 2))
                      + Min(2, PositionsBelow(n, 3)) + Min(2, PositionsBelow(n, 4))
                      + Min(2, PositionsBelow(n, 5))
            /\ n = 100 => size = 10
            /\ n <= 30 => size = 0

\* C8 witness: a list of 71 contributors sampled to 9 picks, the last range
\* holding a single position.
SamplerDegradesAt71 ==
    /\ sampler_pc = "done"
    /\ Len(Val(ranked)) = 71
    /\ Len(Val(selected)) = 9
    /\ Val(selected)[9].position = 70

\* A response received by the call in progress or finished.
Responded == resp # None

\* A response the spec has retried: any HTTP 5xx, a body that is not JSON,
\* or a GraphQL error that mentions a rate limit.
RetriedBySpec(r) ==
    \/ r.status >= 500
    \/ r.status = 200 /\ ~r.body.json
    \/ r.status = 200 /\ r.body.json /\ r.body.errors
         /\ Contains(lower(r.body.text), <<"r", "a", "t", "e", " ", "l", "i", "m", "i", "t">>)

\* C14 as claimed: gql sends at most MAX_RETRIES + 1 requests, sleeps
\* min(60, 2^attempt) before the attempt-th retry, and after any HTTP 5xx, a
\* non-JSON body or a rate-limit error it either retries or, the attempts
\* used up, raises.
GqlRetriesAndTerminates ==
    (fetcher = "gql" /\ Responded) =>
        /\ requests_sent <= MAX_RETRIES + 1
        /\ waits = [i \in 1..Len(waits) |-> Min(60, 2 ^ i)]
        /\ RetriedBySpec(Val(resp)) =>
               \/ fetch_pc = "send" /\ Len(waits) = attempt
               \/ fetch_pc = "raised" /\ attempt > MAX_RETRIES

\* X-RateLimit-Remaining is small but not zero.
RemainingSmall(r) == RemainingBelow(r, 10) /\ r.remaining # Some(0)

\* HTTP 403 classified as a secondary rate limit.
SecondaryRateLimited(r) ==
    /\ r.status = 403
    /\ r.remaining # Some(0)
    /\ is_secondary_rate_limit(r) \/ RemainingSmall(r)

\* Bad credentials, the primary rate limit, or access denied.
FatalResponse(r) ==
    \/ r.status = 401
    \/ r.status = 403 /\ r.remaining = Some(0)
    \/ r.status = 403 /\ ~SecondaryRateLimited(r)

\* C15 as claimed: after HTTP 401, HTTP 403 with remaining == 0, or HTTP 403
\* matching no rate-limit pattern, the call has failed; the request is not
\* issued again, in github_request and in gql.
FatalResponseEndsCall ==
    (Responded /\ FatalResponse(Val(resp))) => fetch_pc = "raised"

\* C16 as claimed: a call does not fail on the first response that is a
\* secondary rate limit; the request was issued again before it gives up.
SecondaryRateLimitIsRetried ==
    (Responded /\ SecondaryRateLimited(Val(resp)) /\ fetch_pc = "raised")
        => requests_sent > 1

\* The candidates the loop has gone through.
Looped == {candidates[i] : i \in 1..idx}

NamedLikeBot(c) == is_bot_user(c.username, <<>>)

\* The candidate's processing raises an exception that is not about bots.
FailsWithNonBotError(c) == ~NamedLikeBot(c) /\ c.api = "bad_json"

HasResult(c) == \E j \in 1..Len(results) : results[j].username = c.username

HasExpert(c) == \E j \in 1..Len(experts) : experts[j].github_username = c.username

\* The candidate's processing gives a result when it is the whole batch.
GivesResult(c) ==
    ~NamedLikeBot(c) /\ "raised" \notin DOMAIN fetch_user_profile_metrics(c.username, c.api)

\* C17: in both batch loops, each candidate whose processing fails with a
\* non-bot error adds exactly 1 to the failed counter and gets no result, and
\* every other candidate the loop reaches still gets the result it would get
\* without the failure.
FailureIsCountedAndIsolated ==
    batch_pc # "idle" =>
        /\ failed = Cardinality({i \in 1..idx : FailsWithNonBotError(candidates[i])})
        /\ \A c \in Looped : FailsWithNonBotError(c) => ~HasResult(c)
        /\ \A c \in Looped : GivesResult(c) => HasResult(c)
        /\ batch_pc = "returned" => idx = Len(candidates)

\* The API answered every request of the candidate with a primary rate limit.
RateLimitedCandidate(c) == ~NamedLikeBot(c) /\ c.api = "rate_limited"

\* C18: a candidate whose fetches hit the primary rate limit is recorded as
\* failed, and no git score is produced or stored for that candidate.
RateLimitedCandidateIsFailed ==
    batch_pc # "idle" =>
        /\ failed >= Cardinality({i \in 1..idx : RateLimitedCandidate(candidates[i])})
        /\ \A c \in Looped : RateLimitedCandidate(c) => ~HasResult(c) /\ ~HasExpert(c)

\* The API rejected the credentials while the candidate was processed.
UnauthorizedCandidate(c) == ~NamedLikeBot(c) /\ c.api = "unauthorized"

\* C19: once the credentials are rejected while a candidate is processed, the
\* loop goes no further: no later candidate is fetched, scored or stored.
UnauthorizedAbortsBatch ==
    \A i \in 1..idx : UnauthorizedCandidate(candidates[i]) => idx = i


DrainEnded == drain_pc \in {"returned", "raised"}

\* fetch_all_pages has sent at most 10 requests and goes on only after a
\* page of at least 100 items.
PagesWithinSafetyLimit ==
    drain = "fetch_all_pages" => page_requests <= PageSafetyLimit

\* C20: every pagination drain ends whatever the server answers:
\* fetch_all_pages after at most 10 requests, and fetch_all_comments and
\* fetch_all_reviews also when hasNextPage stays true forever.
EveryDrainTerminates == []PagesWithinSafetyLimit /\ <>DrainEnded


\* C21: within one drain a delay lies between any two consecutive page
\* requests: the drain has slept at least once for each request after its
\* first, in fetch_all_pages as well as in the cursor drains.
DelayBetweenPageRequests ==
    drain_pc # "idle" /\ page_requests < MaxCounted => sleeps >= page_requests - 1


\* The PR of the fetched list with this number.
PullNumbered(number) == pulls[CHOOSE i \in DOMAIN pulls : pulls[i].number = number]

\* C22: every PR that contributes to a score has a merged_at: the PRs
\* selected as top 3, the PRs counted in total_prs_merged and the PRs whose
\* days enter the time taken; a PR closed without a merge contributes to none.
OnlyMergedPRsContribute ==
    /\ top_prs # None => \A k \in DOMAIN Val(top_prs) : IsMerged(Val(top_prs)[k])
    /\ merged_prs_total # None =>
           Val(merged_prs_total) = Cardinality({i \in DOMAIN pulls : IsMerged(pulls[i])})
    /\ time_taken_days # None =>
           \A t \in Val(time_taken_days) : IsMerged(PullNumbered(t.number))


\* The fetched PRs that are analyzed, by their number, which is their place
\* in the fetch order.
AnalyzedNumbers == {pulls[i].number : i \in {j \in DOMAIN pulls : IsMerged(pulls[j])}}

SelectedNumbers == {Val(top_prs)[k].number : k \in DOMAIN Val(top_prs)}

PullScore(number) ==
    analyze_pr(PullNumbered(number), PullNumbered(number).files_changed,
               PullNumbered(number).lines_of_code,
               PullNumbered(number).commits_count).score

\* C23: the selection over n analyzed PRs holds min(3, n) of them in
\* non-increasing score order, no PR left out scores higher than a selected
\* one, and of two PRs with equal scores the one fetched earlier comes first.
TopThreeInStableScoreOrder ==
    top_prs # None =>
        /\ Len(Val(top_prs)) = Min(3, Cardinality(AnalyzedNumbers))
        /\ Cardinality(SelectedNumbers) = Len(Val(top_prs))
        /\ SelectedNumbers \subseteq AnalyzedNumbers
        /\ \A k \in DOMAIN Val(top_prs) :
               Val(top_prs)[k].score = PullScore(Val(top_prs)[k].number)
        /\ \A k, l \in DOMAIN Val(top_prs) :
               k < l => \/ Val(top_prs)[k].score > Val(top_prs)[l].score
                        \/ /\ Val(top_prs)[k].score = Val(top_prs)[l].score
                           /\ Val(top_prs)[k].number < Val(top_prs)[l].number
        /\ \A out \in AnalyzedNumbers \ SelectedNumbers : \A k \in DOMAIN Val(top_prs) :
               \/ PullScore(out) < Val(top_prs)[k].score
               \/ /\ PullScore(out) = Val(top_prs)[k].score
                  /\ Val(top_prs)[k].number < out

\* Four PRs are analyzed and the one left out scores as much as the last
\* one selected.
TieAtTheThirdPlace ==
    /\ top_prs # None
    /\ Cardinality(AnalyzedNumbers) = 4
    /\ \E out \in AnalyzedNumbers \ SelectedNumbers :
           PullScore(out) = Val(top_prs)[3].score
    /\ Val(top_prs)[1].score > Val(top_prs)[3].score


\* str.upper()
upper(str) ==
    [i \in DOMAIN str |->
        IF \E k \in DOMAIN LowerCase : LowerCase[k] = str[i]
        THEN UpperCase[CHOOSE k \in DOMAIN LowerCase : LowerCase[k] = str[i]]
        ELSE str[i]]

LabelsOfPR == Get(pr, "labels", <<>>)

\* The labels of the PR with every name in upper case.
LabelsInUpperCase ==
    [i \in DOMAIN LabelsOfPR |->
        IF "name" \in DOMAIN LabelsOfPR[i] THEN [name |-> upper(LabelsOfPR[i].name)]
        ELSE LabelsOfPR[i]]

\* The priority labels that occur in a label name of the PR, letter case aside.
MatchedVocabulary ==
    {k \in DOMAIN PRIORITY_LABELS :
        \E name \in LabelNames : Contains(upper(name), upper(PRIORITY_LABELS[k]))}

FlattenedCells == FlattenYears(Val(heatmap_data), 1)

\* The total of the cells dated in the analysis year.
AnalysisYearTotal(analysis_year) ==
    year_contribution_counts(FlattenedCells)[analysis_year]

RECURSIVE SumWalked(_, _)
\* The sum of the counts of the weeks walked from week_num on.
SumWalked(walked, week_num) ==
    IF week_num >= total_weeks THEN 0
    ELSE walked[week_num] + SumWalked(walked, week_num + 1)

WalkedTotal(analysis_year) ==
    SumWalked(WalkedWeeks(year_weekly_commits(FlattenedCells, analysis_year),
                          year_start_date_of(analysis_year)), 0)

\* C25: every non-zero cell dated in the analysis year is counted in one of
\* the 52 weeks walked: the walked weekly counts add up to the year's total,
\* and at least one week is active (the 15.0 return for no active week is
\* never taken).
EveryCellCountedInAWalkedWeek ==
    (Scored /\ HeatmapBuilt /\ consistency_locals # None) =>
        /\ WalkedTotal(Val(consistency_locals).analysis_year)
               = AnalysisYearTotal(Val(consistency_locals).analysis_year)
        /\ Val(consistency_locals).active_weeks >= 1


\* C26: for the longest_gap of the scored year, the gap penalty is no higher
\* at any higher number of active weeks that leaves room for the gap than at
\* the year's own, and it is 0 from 30 active weeks on.
GapPenaltyNeverIncreasesWithActivity ==
    (Scored /\ consistency_locals # None) =>
        /\ \A more \in Val(consistency_locals).active_weeks
                           ..(total_weeks - Val(consistency_locals).longest_gap) :
               gap_penalty(more, Val(consistency_locals).longest_gap)
                   <= gap_penalty(Val(consistency_locals).active_weeks,
                                  Val(consistency_locals).longest_gap)
        /\ Val(consistency_locals).active_weeks >= 30 =>
               gap_penalty(Val(consistency_locals).active_weeks,
                           Val(consistency_locals).longest_gap) = 0


\* The analysis year of the same profile with one more contribution on day d.
AnalysisYearWith(d) ==
    Val(ConsistencyLocals(Some(
        IF contributions # <<>>
        THEN generate_heatmap_from_contributions(ContributionsWith(d), prs)
        ELSE generate_contribution_heatmap(Append(commits, [date |-> strftime(d)]), prs)))).analysis_year

\* C27: the score is computed from the cells of the analysis year only: one
\* more contribution on a day of any other calendar year, the analysis year
\* staying the year with the highest total, leaves the score unchanged.
ScoreIgnoresOtherCalendarYears ==
    (Scored /\ HeatmapBuilt /\ consistency_locals # None) =>
        \A d \in ProbeDates :
            (YearOfOrd(d) # Val(consistency_locals).analysis_year
             /\ AnalysisYearWith(d) = Val(consistency_locals).analysis_year)
                => ScoreWith(d) = Val(consistency_score)


\* The week of the grid of its year a day is counted in: the weeks since the
\* Monday on or before January 1, the days past week 51 counted in week 51.
GridWeekOfDay(o) ==
    LET jan1 == ymd2ord(YearOfOrd(o), 1, 1)
    IN  Min(51, (o - (jan1 - weekday(jan1))) \div 7)

RECURSIVE SumFrom(_, _)
\* The sum of weights[i..].
SumFrom(weights, i) ==
    IF i > Len(weights) THEN 0 ELSE weights[i] + SumFrom(weights, i + 1)

\* The day belongs to `year` and, when a cell is given, to that cell.
InYearAndCell(date, year, cell) ==
    /\ date.y = year
    /\ cell # None =>
        /\ GridWeekOfDay(strptime(date)) = Val(cell)[1]
        /\ weekday(strptime(date)) = Val(cell)[2]

\* The weight of each event the builder that ran reads (the calendar
\* contributions, else the commits, and the PRs), 0 for an event outside the
\* year or the cell and for a PR that is not merged.
WeightsWhere(year, cell) ==
    [i \in DOMAIN contributions |->
        IF InYearAndCell(contributions[i].date, year, cell)
        THEN contributions[i].count ELSE 0]
    \o (IF contributions = <<>>
        THEN [i \in DOMAIN commits |->
                 IF InYearAndCell(commits[i].date, year, cell) THEN 1 ELSE 0]
        ELSE <<>>)
    \o [i \in DOMAIN prs |->
           IF prs[i].merged_at # None
              /\ InYearAndCell(Val(prs[i].merged_at), year, cell)
           THEN 2 ELSE 0]

\* The summed weight of the events of `year` that belong to cell (week, day).
WeightOfCell(year, week, day) ==
    SumFrom(WeightsWhere(year, Some(<<week, day>>)), 1)

\* The summed weight of the events of `year`.
WeightOfYear(year) == SumFrom(WeightsWhere(year, None), 1)

RECURSIVE RawCountFrom(_, _)
\* The raw counts of the cells of one year's grid from week `week` on, added
\* week by week.
RawCountFrom(data, week) ==
    IF week >= 52 THEN 0
    ELSE SumFrom([day \in 1..7 |-> data[GridKey(week, day - 1) + 1].count], 1)
         + RawCountFrom(data, week + 1)

\* C28: in the heatmap either builder returns, the raw count of every cell of
\* year Y is the summed weight (count, 1 for a commit, 2 for a merged PR) of
\* the events of Y whose week (clamped to 51) and weekday are the cell's, and
\* the raw counts of Y's grid add up to the weight of all events of Y.
EachEventCountedInItsCell ==
    HeatmapBuilt =>
        \A n \in DOMAIN Val(heatmap_data) :
            /\ \A i \in DOMAIN Val(heatmap_data)[n].data :
                   Val(heatmap_data)[n].data[i].count
                       = WeightOfCell(Val(heatmap_data)[n].year,
                                      Val(heatmap_data)[n].data[i].week,
                                      Val(heatmap_data)[n].data[i].day)
            /\ RawCountFrom(Val(heatmap_data)[n].data, 0)
                   = WeightOfYear(Val(heatmap_data)[n].year)

\* A heatmap is built from merged PRs dated past week 51 of their year, which
\* week 51 of that year's grid counts with weight 2 each.
LateDecemberPRsCounted ==
    /\ HeatmapBuilt
    /\ \E i \in DOMAIN prs, n \in DOMAIN Val(heatmap_data) :
        /\ prs[i].merged_at # None
        /\ Val(prs[i].merged_at).y = Val(heatmap_data)[n].year
        /\ LET o == strptime(Val(prs[i].merged_at))
               jan1 == ymd2ord(YearOfOrd(o), 1, 1)
           IN  /\ (o - (jan1 - weekday(jan1))) \div 7 = 52
               /\ Val(heatmap_data)[n].data[GridKey(51, weekday(o)) + 1].count >= 2


\* The band of a list position: 1 for 30..39, 2 for 40..49, 3 for 50..59,
\* 4 for 60..69 and 5 for 70..99.
BandOfPosition(position) ==
    IF position < 40 THEN 1
    ELSE IF position < 50 THEN 2
    ELSE IF position < 60 THEN 3
    ELSE IF position < 70 THEN 4
    ELSE 5

\* C29: the sampler returns contributors of list positions 30..99 only, no
\* position twice, at most 2 positions of each of the five bands, and its
\* picks in ascending band order.
SamplerPicksWithinBands ==
    sampler_pc = "done" =>
        /\ \A i \in DOMAIN Val(selected) :
            /\ Val(selected)[i].position \in 30..99
            /\ Val(selected)[i].position < Len(Val(ranked))
            /\ Val(selected)[i].contributor = Val(ranked)[Val(selected)[i].position + 1]
        /\ \A i, j \in DOMAIN Val(selected) :
            i # j => Val(selected)[i].position # Val(selected)[j].position
        /\ \A band \in 1..5 :
            Cardinality({i \in DOMAIN Val(selected) :
                            BandOfPosition(Val(selected)[i].position) = band}) <= 2
        /\ \A i, j \in DOMAIN Val(selected) :
            i < j => BandOfPosition(Val(selected)[i].position)
                         <= BandOfPosition(Val(selected)[j].position)

\* A list of 100 contributors is sampled to 10 picks, the first at position
\* 31 and the last at position 99.
TenPicksFromPosition31To99 ==
    /\ sampler_pc = "done"
    /\ Len(Val(ranked)) = 100
    /\ Len(Val(selected)) = 10
    /\ Val(selected)[1].position = 31
    /\ Val(selected)[10].position = 99


\* C30: in either batch loop every candidate gone through has changed exactly
\* one of the three counters, by one: the counters add up to the number of
\* candidates gone through, which is all of them once the summary is
\* returned, and results holds exactly `processed` entries.
BatchCountersAddUp ==
    batch_mode # "none" =>
        /\ processed + failed + skipped_bots = idx
        /\ Len(results) = processed
        /\ batch_pc = "returned" =>
            /\ processed + failed + skipped_bots = Len(candidates)
            /\ Len(results) = processed

\* A batch of three candidates returned with one processed, one failed and
\* one skipped as a bot.
BatchOfThreeMixedOutcomes ==
    /\ batch_pc = "returned"
    /\ Len(candidates) = 3
    /\ processed = 1 /\ failed = 1 /\ skipped_bots = 1
    /\ Len(results) = 1


=========================================================================
